---- MODULE Spec2Model ----
(***************************************************************************)
(* A model of ReactiveJS (src/index.js): reactive proxies, the effect      *)
(* stack, the dependency map, refs and computed values.                    *)
(*                                                                         *)
(* JavaScript here is single-threaded and synchronous but re-entrant: a    *)
(* write runs the subscribed effects before it returns, and an effect's    *)
(* function may itself read, write or create effects.  The model keeps the *)
(* JavaScript call stack explicitly in `ctl`: a sequence of frames, the    *)
(* last one executing.  Straight-line code of the library (the proxy traps,*)
(* track, cleanup, createProxy) is a pure operator on the record of all    *)
(* variables; every call of a user function is a frame.                    *)
(*                                                                         *)
(* All JavaScript values are strings: primitives "v0", "v1", raw objects   *)
(* "A", "N", "M", proxies "p1", "p2", ..., the ref "R", `undefined`.       *)
(***************************************************************************)
EXTENDS Integers, Sequences, FiniteSets, TLC

(* ------------------------------ bounds -------------------------------- *)
MaxProxies == 2      \* proxies the model lets the program create
MaxEffects == 1      \* effects created by calls of effect() from user code

(* ------------------------ program constants --------------------------- *)
MAX_RECURSION_DEPTH == 200
MAX_EFFECT_STACK_SIZE == 1000
EFFECT_STACK_WARNING_THRESHOLD == 750

ERR_MAX_RECURSION == "Maximum recursion depth exceeded"
ERR_MAX_STACK == "Maximum effect stack size exceeded"
ERR_INVALID_TYPE == "Invalid type for reactive conversion"
ERR_CIRCULAR_REF == "Circular reference detected"
TypeError == "TypeError"
UserError == "user error"
RangeError == "RangeError: Maximum call stack size exceeded"
NoError == "none"

(* ----------------------------- universe ------------------------------- *)
Undef == "undefined"
Absent == "absent"                 \* a key the object does not have
Raw == {"A", "N", "M"}             \* the caller's plain objects
Keys == {"count", "nested"}
KeyOrder == <<"count", "nested">>  \* the order in which Object.values lists them
CIRCULAR_CHECK == "Symbol(circular_check)"
HeapKeys == Keys \cup {CIRCULAR_CHECK}
Prims == {"v0", "v1"}
Arr == "L"                         \* const L = ["v0"], an array (part_001 57)
Indices == <<"0", "1">>            \* its index keys, in order
Numbers == <<"n0", "n1", "n2">>    \* the numbers 0, 1, 2: the lengths it can have
ArrKeys == {"0", "1", "length", CIRCULAR_CHECK}
Null == "null"
RefName == "R"                     \* const R = ref("v0")
Computeds == {"CA", "CB"}          \* CA = computed(gA), CB = computed(gB)
ProxyNames == <<"p1", "p2", "p3", "p4", "p5", "p6">>
EffectNames == <<"e1", "e2", "e3", "e4", "e5", "e6", "e7", "e8">>
AllProxies == {ProxyNames[i] : i \in 1..MaxProxies}
Targets == Raw \cup AllProxies \cup {RefName}
Slots == (Targets \X (HeapKeys \cup {"value"})) \cup ({Arr} \X ArrKeys)
\* every effect there can be: those of user code and one per computed
EffectIds == 1..(MaxEffects + Cardinality(Computeds))

VARIABLES
    heap,          \* [Raw -> [HeapKeys -> value or Absent]]: the plain objects,
                   \* and [ArrKeys -> value or Absent] for the array
    frozen,        \* the raw objects for which Object.isFrozen is true
    refValue,      \* R._value
    proxies,       \* the Proxy objects created, in order: PName(i) names the i-th
    reactiveCache, \* the WeakMap  object -> proxy  ("none": no entry)
    targetMap,     \* [Slots -> sequence of effects]: each Set in insertion order
    effects,       \* the wrappedEffect functions created: fn, its arguments, deps
    effectStack,   \* the stack of running effects
    computeds,     \* [Computeds -> closure of computed(): made, dirty, eff, cached]
    ctl,           \* the call stack: frames, the last one executing
    err,           \* the exception in flight
    op,            \* the top-level operation running: what it found when it began
    log,           \* what the operation has done so far (counts since it began)
    fromReadonly,  \* [proxy -> how readonly() came to return it]: a history
    watchOldValue, \* `let oldValue` of the closure each watch() made, by its effect
    cbLast,        \* the newValue of each callback's last invocation: a history
    lastReads,     \* [effect -> the slots its function read in its last run]: a history
    noHandle       \* the effects whose first run raised, effect() returning none: a history

vars == <<heap, frozen, refValue, proxies, reactiveCache, targetMap, effects,
          effectStack, computeds, ctl, err, op, log, fromReadonly, watchOldValue,
          cbLast, lastReads, noHandle>>

(* The record of all variables: the library's code is written as operators *)
(* from such a record to the record after the code has run.                *)
Pack ==
    [heap |-> heap, frozen |-> frozen, refValue |-> refValue, proxies |-> proxies,
     reactiveCache |-> reactiveCache, targetMap |-> targetMap, effects |-> effects,
     effectStack |-> effectStack, computeds |-> computeds, ctl |-> ctl, err |-> err,
     op |-> op, log |-> log, fromReadonly |-> fromReadonly,
     watchOldValue |-> watchOldValue, cbLast |-> cbLast, lastReads |-> lastReads,
     noHandle |-> noHandle]

Commit(s) ==
    /\ heap' = s.heap
    /\ frozen' = s.frozen
    /\ refValue' = s.refValue
    /\ proxies' = s.proxies
    /\ reactiveCache' = s.reactiveCache
    /\ targetMap' = s.targetMap
    /\ effects' = s.effects
    /\ effectStack' = s.effectStack
    /\ computeds' = s.computeds
    /\ ctl' = s.ctl
    /\ err' = s.err
    /\ op' = s.op
    /\ log' = s.log
    /\ fromReadonly' = s.fromReadonly
    /\ watchOldValue' = s.watchOldValue
    /\ cbLast' = s.cbLast
    /\ lastReads' = s.lastReads
    /\ noHandle' = s.noHandle

(* ----------------------------- helpers -------------------------------- *)
InSeq(x, seq) == \E i \in 1..Len(seq) : seq[i] = x
SeqRemove(seq, x) == SelectSeq(seq, LAMBDA y : y # x)
Last(seq) == seq[Len(seq)]
Front(seq) == SubSeq(seq, 1, Len(seq) - 1)

PName(i) == ProxyNames[i]
EIndex(handle) == CHOOSE e \in 1..Len(EffectNames) : EffectNames[e] = handle
IsProxy(h) == \E i \in 1..Len(ProxyNames) : ProxyNames[i] = h
PIndex(h) == CHOOSE i \in 1..Len(ProxyNames) : ProxyNames[i] = h
ProxyOf(s, h) == s.proxies[PIndex(h)]
Allocated(s) == {PName(i) : i \in 1..Len(s.proxies)}
\* part_001 222-225: the objects createDeepObject makes below the outermost
\* one, DeepName(k) at depth k
DeepName(k) == ToString(k)
Chain == {DeepName(k) : k \in 1..MAX_RECURSION_DEPTH}
DeepIndex(o) == CHOOSE k \in 1..MAX_RECURSION_DEPTH : DeepName(k) = o
\* a plain object: one of the caller's, or one of such a chain
IsPlain(h) == h \in Raw \/ h \in Chain \/ h = Arr
\* typeof v === "object" && v !== null
IsObject(v) == IsPlain(v) \/ IsProxy(v)

\* What a piece of the library's code hands back: the state after it, its
\* value, the slots it triggers, in order (their effects are run by the
\* caller, one slot after the other), and the error it threw.
Ok(s, v) == [s |-> s, val |-> v, triggers |-> <<>>, err |-> NoError]
Throw(s, e) == [s |-> s, val |-> Undef, triggers |-> <<>>, err |-> e]
\* r, then K on what r hands back, unless r threw
Bind(r, K(_)) == IF r.err # NoError THEN r ELSE K(r)
\* The model's bound on proxies or effects is reached: the step is not taken.
OutOfBound == "out of the model's bounds"

(* ------------------- the dependency graph (track, cleanup) ------------ *)
\* src/index.js 163-183.  The Set of a slot is a sequence: a JavaScript Set
\* iterates in insertion order.  A slot whose Set was never created reads as
\* the empty sequence.
\* (first, a track that records the reverse link at every read)
trackAgain(s, target, key) ==
    IF s.effectStack = <<>> THEN s
    ELSE [s EXCEPT !.targetMap[<<target, key>>] =
                       IF InSeq(Last(s.effectStack), @) THEN @
                       ELSE Append(@, Last(s.effectStack)),
                   !.effects[Last(s.effectStack)].deps = Append(@, <<target, key>>)]

\* (and a track that subscribes the outermost running effect)
trackOutermost(s, target, key) ==
    IF s.effectStack = <<>> THEN s
    ELSE IF InSeq(s.effectStack[1], s.targetMap[<<target, key>>]) THEN s
    ELSE [s EXCEPT !.targetMap[<<target, key>>] = Append(@, s.effectStack[1]),
                   !.effects[s.effectStack[1]].deps = Append(@, <<target, key>>)]

track(s, target, key) ==
    IF s.effectStack = <<>> THEN s
    ELSE LET effectFn == Last(s.effectStack)
             slot == <<target, key>>
         IN IF InSeq(effectFn, s.targetMap[slot]) THEN s
            ELSE [s EXCEPT !.targetMap[slot] = Append(@, effectFn),
                           !.effects[effectFn].deps = Append(@, slot)]

\* A cleanup that leaves the subscriptions of the run before in place.
cleanupNothing(s, effectFn) == s

\* src/index.js 146-153
cleanup(s, effectFn) ==
    [s EXCEPT !.targetMap = [slot \in Slots |->
                                IF InSeq(slot, s.effects[effectFn].deps)
                                THEN SeqRemove(@[slot], effectFn) ELSE @[slot]],
              !.effects[effectFn].deps = <<>>]

RECURSIVE RunnerAt(_, _)
\* The effect whose run the frame k of the call stack c belongs to: the
\* innermost function of an effect (src/index.js 124: fn()) that has been
\* called and has not returned at or below k, and 0 if there is none.
RunnerAt(c, k) ==
    IF k = 0 THEN 0
    ELSE IF c[k].kind = "call" /\ c[k].e > 0 THEN c[k].e
    ELSE RunnerAt(c, k - 1)
Runner(s) == RunnerAt(s.ctl, Len(s.ctl))

\* The histories note the slot a get trap or the ref's getter was entered for,
\* under the effect whose function was executing.
Seen(s, target, key) ==
    IF Runner(s) \notin EffectIds THEN s
    ELSE [s EXCEPT !.log.reads[Runner(s)] = @ \cup {<<target, key>>},
                   !.lastReads[Runner(s)] = @ \cup {<<target, key>>}]

\* src/index.js 194-200: const effectsToRun = new Set(effects)
effectsToRun(s, slot) == s.targetMap[slot]

(* --------------------------- createProxy ------------------------------ *)
RECURSIVE RawOf(_, _)
\* The plain object under a chain of proxies: where a proxy without the trap
\* forwards an internal method (isFrozen, has, ownKeys, defineProperty).
RawOf(s, h) == IF IsPlain(h) THEN h ELSE RawOf(s, ProxyOf(s, h).target)

\* Object.isFrozen(target)
IsFrozen(s, h) == RawOf(s, h) \in s.frozen
\* key in target
HasKey(s, h, key) == s.heap[RawOf(s, h)][key] # Absent

\* A cache that never finds its entry.
CacheNeverHas(s, obj) == FALSE

\* src/index.js 218: reactiveCache.has(obj)
CacheHas(s, obj) == s.reactiveCache[obj] # "none"

\* src/index.js 211-220, 261-263
createProxy(s, obj, shallow, readonly, depth) ==
    IF depth >= MAX_RECURSION_DEPTH THEN Throw(s, ERR_MAX_RECURSION)
    ELSE IF CacheHas(s, obj) THEN Ok(s, s.reactiveCache[obj])
    ELSE IF Len(s.proxies) >= MaxProxies THEN Throw(s, OutOfBound)
    ELSE Ok([s EXCEPT !.proxies = Append(@, [target |-> obj, shallow |-> shallow,
                                              readonly |-> readonly, depth |-> depth]),
                      !.reactiveCache[obj] = PName(Len(s.proxies) + 1)],
            PName(Len(s.proxies) + 1))

(* ------------------------- the proxy handlers ------------------------- *)
\* A get trap that never wraps the nested result.
WrapsResultNever(P, res) == FALSE

\* A get trap that wraps the nested result whatever `shallow` says.
WrapsResultAlways(P, res) == IsObject(res)

\* src/index.js 228: the nested result is wrapped
WrapsResult(P, res) == ~P.shallow /\ IsObject(res)

\* The engine's check of what a trap reported against a frozen target, whose
\* properties are non-writable and non-configurable: a get trap must report
\* the property's value itself, a set trap must not report success for another
\* value, a deleteProperty trap must not report success for a property that
\* exists.  The Proxy throws a TypeError otherwise.
Reported(r, P, breaks) ==
    IF r.err = NoError /\ IsFrozen(r.s, P.target) /\ breaks THEN Throw(r.s, TypeError) ELSE r

\* src/index.js 228-231
GetResult(s, P, res) ==
    IF WrapsResult(P, res)
    THEN Reported(createProxy(s, res, P.shallow, P.readonly, P.depth + 1), P, TRUE)
    ELSE Ok(s, res)

RECURSIVE Get(_, _, _)
\* h[key] for a plain object or a proxy h (src/index.js 223-232; the key RAW
\* is toRaw/isReactive below).  Reflect.get on a target that is itself a proxy
\* runs that proxy's trap.
Get(s, h, key) ==
    IF IsPlain(h)
    THEN Ok(s, IF s.heap[h][key] = Absent THEN Undef ELSE s.heap[h][key])
    ELSE Bind(Get(s, ProxyOf(s, h).target, key),
              LAMBDA r : GetResult(track(Seen(r.s, ProxyOf(s, h).target, key),
                                         ProxyOf(s, h).target, key),
                                   ProxyOf(s, h), r.val))

\* A set trap that looks at Object.isFrozen only.
RefusesWriteIfFrozen(s, P) == IsFrozen(s, P.target)

\* src/index.js 235, 248: readonly || Object.isFrozen(target)
RefusesWrite(s, P) == P.readonly \/ IsFrozen(s, P.target)
\* src/index.js 241: oldValue !== value
Changed(oldValue, value) == oldValue # value

Warn(s) == [s EXCEPT !.log.warns = @ + 1]       \* console.warn(ERRORS.READONLY)
\* r, and then trigger(target, key) if cond
AndTrigger(r, cond, target, key) ==
    IF cond /\ r.err = NoError THEN [r EXCEPT !.triggers = Append(@, <<target, key>>)] ELSE r

\* the number n as a value, the number a value is, and the one an index key
\* stands for
Number(n) == Numbers[n + 1]
Num(v) == CHOOSE n \in 0..Len(Indices) : Number(n) = v
IsIndex(key) == InSeq(key, Indices)
Index(key) == CHOOSE n \in 0..(Len(Indices) - 1) : Indices[n + 1] = key

\* The properties a of an array after a[key] = value: a write at an index at
\* or beyond the length sets the length to the index plus one, a write of the
\* length removes the elements at and beyond it.
ArrayStored(a, key, value) ==
    IF IsIndex(key)
    THEN [a EXCEPT ![key] = value,
                   !["length"] = IF Index(key) >= Num(@) THEN Number(Index(key) + 1) ELSE @]
    ELSE IF key = "length"
    THEN [k \in DOMAIN a |-> IF k = "length" THEN value
                             ELSE IF IsIndex(k) /\ Index(k) >= Num(value) THEN Absent
                             ELSE a[k]]
    ELSE [a EXCEPT ![key] = value]

RECURSIVE Set(_, _, _, _)
\* h[key] = value (src/index.js 234-245).  On a plain object it is the
\* assignment of strict code (a module), a TypeError if the object is frozen;
\* Reflect.set (240) finds no frozen object, the trap having returned at 237.
Set(s, h, key, value) ==
    IF IsPlain(h)
    THEN IF h \in s.frozen THEN Throw(s, TypeError)
         ELSE IF h = Arr THEN Ok([s EXCEPT !.heap[h] = ArrayStored(@, key, value)], TRUE)
         ELSE Ok([s EXCEPT !.heap[h][key] = value], TRUE)
    ELSE IF RefusesWrite(s, ProxyOf(s, h))
    THEN Reported(Ok(Warn(s), TRUE), ProxyOf(s, h),
                  HasKey(s, ProxyOf(s, h).target, key)
                      /\ s.heap[RawOf(s, h)][key] # value)
    ELSE Bind(Get(s, ProxyOf(s, h).target, key),
              LAMBDA old : AndTrigger(Set(old.s, ProxyOf(s, h).target, key, value),
                                      Changed(old.val, value), ProxyOf(s, h).target, key))

RECURSIVE DeleteProperty(_, _, _)
\* delete h[key] (src/index.js 247-258); on a plain object the delete of
\* strict code, a TypeError if the object is frozen and has the key
DeleteProperty(s, h, key) ==
    IF IsPlain(h)
    THEN IF h \in s.frozen
         THEN (IF s.heap[h][key] # Absent THEN Throw(s, TypeError) ELSE Ok(s, TRUE))
         ELSE Ok([s EXCEPT !.heap[h][key] = Absent], TRUE)
    ELSE IF RefusesWrite(s, ProxyOf(s, h))
    THEN Reported(Ok(Warn(s), TRUE), ProxyOf(s, h), HasKey(s, ProxyOf(s, h).target, key))
    ELSE AndTrigger(DeleteProperty(s, ProxyOf(s, h).target, key),
                    HasKey(s, ProxyOf(s, h).target, key), ProxyOf(s, h).target, key)

\* src/index.js 395-397: obj?.[RAW] || obj, the get trap returning its target
toRaw(s, obj) == IF IsProxy(obj) THEN ProxyOf(s, obj).target ELSE obj
\* src/index.js 404-406: !!obj?.[RAW]
isReactive(s, obj) == IsProxy(obj)

(* ----------------------------- validation ----------------------------- *)
RECURSIVE GetAll(_, _, _)
\* Object.values(obj): every own string key is read, in order, before any
\* value is visited.  The result's val is the sequence of values.
GetAll(s, obj, keys) ==
    IF keys = <<>> THEN Ok(s, <<>>)
    ELSE IF ~HasKey(s, obj, Head(keys)) THEN GetAll(s, obj, Tail(keys))
    ELSE Bind(Get(s, obj, Head(keys)),
              LAMBDA g : Bind(GetAll(g.s, obj, Tail(keys)),
                              LAMBDA rest : Ok(rest.s, <<g.val>> \o rest.val)))

\* src/index.js 83-94: what forEach visits.  Of an array, the elements below
\* its length, which forEach reads first; of another object, Object.values.
Values(s, obj) ==
    IF RawOf(s, obj) = Arr
    THEN Bind(Get(s, obj, "length"),
              LAMBDA n : GetAll(n.s, obj, SelectSeq(Indices, LAMBDA k : Index(k) < Num(n.val))))
    ELSE GetAll(s, obj, KeyOrder)

(* ------------------------ user code: instructions --------------------- *)
\* One statement of user code.  root is a value the code holds (a plain
\* object, a proxy, a primitive); path the keys read from it in turn.
Instr(o) == [op |-> o, root |-> Undef, path |-> <<>>, key |-> "-", val |-> Undef,
             fn |-> "-", c |-> "none", n |-> 0]
IGet(root, path) == [Instr("get") EXCEPT !.root = root, !.path = path]
ISet(root, path, key, val) ==
    [Instr("set") EXCEPT !.root = root, !.path = path, !.key = key, !.val = val]
IDelete(root, key) == [Instr("delete") EXCEPT !.root = root, !.key = key]
IRefGet == Instr("refget")
IRefSet(val) == [Instr("refset") EXCEPT !.val = val]
IComputed(c) == [Instr("computed") EXCEPT !.c = c]
IValue(c) == [Instr("value") EXCEPT !.c = c]
IEffect(fn, root) == [Instr("effect") EXCEPT !.fn = fn, !.root = root]
IWrap(o, obj) == [Instr(o) EXCEPT !.root = obj]
IUnref(x) == [Instr("unref") EXCEPT !.root = x]
ICallback == Instr("callback")
IStoreOld == Instr("storeOld")
IWatch(fn) == [Instr("watch") EXCEPT !.fn = fn]
IWatchOn(fn, w) == [Instr("watchOn") EXCEPT !.fn = fn, !.root = w]
ICallbackGet(root, path) == [Instr("callbackGet") EXCEPT !.root = root, !.path = path]
ICall(handle) == [Instr("call") EXCEPT !.root = handle]
INest(w, depth) == [Instr("nest") EXCEPT !.root = w, !.n = depth]
IBuild(depth) == [Instr("build") EXCEPT !.n = depth]
IFlip(w) == [Instr("flip") EXCEPT !.root = w]
IFailIf(v) == [Instr("failIf") EXCEPT !.val = v]
IToRaw(x) == [Instr("toRaw") EXCEPT !.root = x]
IFreeze(x) == [Instr("freeze") EXCEPT !.root = x]
IGetIf(v, root, path) == [Instr("getIf") EXCEPT !.val = v, !.root = root, !.path = path]

\* The functions user code passes to effect() and computed(); w is the proxy
\* the function closes over.
\*   readCount:   () => { dummy = w.count }            (part_001 34-36)
\*   readNested:  () => { dummy = w.nested.count }     (part_001 47-49, 179-181)
\*   readRef:     () => { dummy = R.value }            (part_001 95-97)
\*   readCA:      () => { dummy = CA.value }
\*   gA:          () => R.value                        (part_001 121)
\*   gB:          () => CA.value
\*   toggle:      () => { w.count = w.count === "v0" ? "v1" : "v0" }
\*                (an effect that writes the slot it read, as `w.count++` does)
\*   failRef:     () => { if (R.value === "v1") throw new Error("user error") }
\*   failCount:   () => { if (w.count === "v1") throw new Error("user error") }
\*   branch:      () => { if (w.count === "v0") dummy = w.nested }
\*   readTwice:   () => { dummy = w.count + w.count }
\*   outer:       () => { effect(inner); dummy = w.nested }
\*   inner:       () => { dummy = w.count }
\*   readFirst:   () => { dummy = w[0] }               (part_001 60-62)
\*   readLength:  () => { dummy = w.length }
\* and the function watch() passes to effect() (src/index.js 356-360), its
\* getter being () => unref(R) for watch(R, cb) and the function given for
\* watch(() => R.value, cb)  (part_001 150-152, 162-167):
\*   watchRef, watchGetter, watchReading:
\*       () => { const newValue = getter(); callback(newValue, oldValue);
\*               oldValue = newValue }
Prog(fn, w) ==
    CASE fn = "readCount" -> <<IGet(w, <<"count">>)>>
      [] fn = "readFirst" -> <<IGet(w, <<"0">>)>>
      [] fn = "readLength" -> <<IGet(w, <<"length">>)>>
      [] fn = "readNested" -> <<IGet(w, <<"nested", "count">>)>>
      [] fn = "readRef" -> <<IRefGet>>
      [] fn = "readCA" -> <<IValue("CA")>>
      [] fn = "gA" -> <<IRefGet>>
      [] fn = "gB" -> <<IValue("CA")>>
      [] fn = "toggle" -> <<IGet(w, <<"count">>), IFlip(w)>>
      [] fn = "failRef" -> <<IRefGet, IFailIf("v1")>>
      [] fn = "failCount" -> <<IGet(w, <<"count">>), IFailIf("v1")>>
      [] fn = "readTwice" -> <<IGet(w, <<"count">>), IGet(w, <<"count">>)>>
      [] fn = "outer" -> <<IEffect("inner", w), IGet(w, <<"nested">>)>>
      [] fn = "inner" -> <<IGet(w, <<"count">>)>>
      [] fn = "rewrap" -> <<IWrap("reactive", w)>>
      [] fn = "branch" -> <<IGet(w, <<"count">>), IGetIf("v0", w, <<"nested">>)>>
      [] fn = "watchRef" -> <<IUnref(RefName), ICallback, IStoreOld>>
      [] fn = "watchGetter" -> <<IRefGet, ICallback, IStoreOld>>
      [] fn = "watchReading" -> <<IRefGet, ICallbackGet(w, <<"count">>), IStoreOld>>
Getter(c) == IF c = "CA" THEN "gA" ELSE "gB"

\* part_001 240-248: the function createNestedEffect(depth) passes to effect(),
\*   nest:  () => { w.count; createNestedEffect(depth - 1) }
\* E is the record of the effect: its function and what the function closes over.
ProgOf(E) ==
    IF E.fn = "nest" THEN <<IGet(E.root, <<"count">>), INest(E.root, E.n - 1)>>
    ELSE Prog(E.fn, E.root)

(* ------------------------------ frames -------------------------------- *)
\* call: a function running prog at pc; e > 0 when it is the run of effect e
\*       (wrappedEffect); c names the computed whose cachedValue receives
\*       the result; deliver says what the caller receives.
\* fan:  trigger(): queue is effectsToRun, pending the slots still to trigger.
\* value: the getter `get value()` of computed c waiting for its recompute.
\* wrap: reactive(obj) waiting for validateReactiveTarget; prog is the call.
\* check: checkCircularReferences(obj, depth) inside its try block; queue is
\*       the objects among Object.values(obj) still to visit.  At pc 0 it is
\*       before the block, in the assignment of the mark.
Frame(kind) == [kind |-> kind, prog |-> <<>>, pc |-> 1, acc |-> Undef, e |-> 0,
                c |-> "none", deliver |-> "none", queue |-> <<>>, pending |-> <<>>,
                obj |-> Undef, depth |-> 0]
CallFrame(prog, e, c, deliver) ==
    [Frame("call") EXCEPT !.prog = prog, !.e = e, !.c = c, !.deliver = deliver]
FanFrame(pending) == [Frame("fan") EXCEPT !.pending = pending]
ValueFrame(c, e) == [Frame("value") EXCEPT !.c = c, !.e = e]
WrapFrame(i) == [Frame("wrap") EXCEPT !.prog = <<i>>]
CheckFrame(obj, depth, values) ==
    [Frame("check") EXCEPT !.obj = obj, !.depth = depth, !.queue = values]

Top(s) == Last(s.ctl)
Pop(s) == [s EXCEPT !.ctl = Front(@)]
Push(s, f) == [s EXCEPT !.ctl = Append(@, f)]
\* the running function goes on to its next statement, v the value of this one
Advance(s, v) == [s EXCEPT !.ctl[Len(s.ctl)].pc = @ + 1, !.ctl[Len(s.ctl)].acc = v]
\* ... while the function it has just called runs
Called(s) == [s EXCEPT !.ctl[Len(s.ctl)].pc = @ + 1]
Raise(s, e) == [s EXCEPT !.err = e]
\* the statement is done: r is what the library handed back
Finish(r) == IF r.err # NoError THEN Raise(r.s, r.err) ELSE Advance(r.s, r.val)
Idle == ctl = <<>>

(* ----------------- validation (src/index.js 57-99) --------------------- *)
\* The finally of the validation of a proxy triggers the slot of its mark.
\* Its effects would have to run in the middle of the finally: an effect of
\* the model is subscribed to a mark only when the mark has stayed on its
\* object, which no validation then gets past, and the step is not taken if
\* one were.
Unsubscribed(r) ==
    IF r.err = NoError /\ \E k \in 1..Len(r.triggers) : r.s.targetMap[r.triggers[k]] # <<>>
    THEN Throw(r.s, OutOfBound)
    ELSE r

\* A ceiling one level further down.
TooDeepAfter(depth) == depth > MAX_RECURSION_DEPTH

\* src/index.js 72: depth >= MAX_RECURSION_DEPTH
TooDeep(depth) == depth >= MAX_RECURSION_DEPTH

\* src/index.js 82-94: the try block is entered, r.val being Object.values(obj);
\* forEach will call checkCircularReferences for the objects among them.  An
\* exception of Object.values is raised inside the block.
Tried(r, obj, depth) ==
    IF r.err # NoError THEN Raise(Push(r.s, CheckFrame(obj, depth, <<>>)), r.err)
    ELSE Push(r.s, CheckFrame(obj, depth, SelectSeq(r.val, IsObject)))

\* trigger() of one of the slots finds an effect to run
Awaited(s, slots) == \E k \in 1..Len(slots) : s.targetMap[slots[k]] # <<>>

\* src/index.js 80: obj[CIRCULAR_CHECK] = true has been evaluated, m being
\* what the set trap handed back.  The trap of a proxy calls trigger() before
\* it returns: the effects subscribed to the mark run before the try block is
\* entered, the call waiting at pc 0.  An effect is subscribed to the mark of
\* a target by validating a wrapper of it, and does so again when it runs:
\* it finds the mark (76) and raises, and the call is left by that exception.
Marking(m, obj, depth) ==
    IF m.err # NoError THEN Raise(m.s, m.err)
    ELSE IF Awaited(m.s, m.triggers)
    THEN Push(Push(m.s, [CheckFrame(obj, depth, <<>>) EXCEPT !.pc = 0]), FanFrame(m.triggers))
    ELSE Tried(Values(m.s, obj), obj, depth)

\* src/index.js 71-90: the call checkCircularReferences(obj, depth) up to the
\* first call it makes itself.  obj may be a proxy: the mark is then read and
\* set through its traps.
checkCircularReferences(s, obj, depth) ==
    IF TooDeep(depth) THEN Raise(s, ERR_MAX_RECURSION)
    ELSE Marking(Bind(Get(s, obj, CIRCULAR_CHECK),
                      LAMBDA g : IF g.val # Undef THEN Throw(g.s, ERR_CIRCULAR_REF)
                                 ELSE Set(g.s, obj, CIRCULAR_CHECK, "true")),
                 obj, depth)

\* A validation that leaves its mark on the object.
CheckMarkedKept(s, obj) == Ok(s, TRUE)

\* src/index.js 96-98: finally { delete obj[CIRCULAR_CHECK] }
CheckMarked(s, obj) == Unsubscribed(DeleteProperty(s, obj, CIRCULAR_CHECK))

\* The call f of checkCircularReferences is left, by return or by exception:
\* the exception in flight stays.
Settled(r) == IF r.err # NoError THEN Raise(r.s, r.err) ELSE r.s
CheckLeft(s, f) == Settled(CheckMarked(s, f.obj))

\* src/index.js 57-64
validateReactiveTarget(s, obj) ==
    IF ~IsObject(obj) THEN Raise(s, ERR_INVALID_TYPE)
    ELSE checkCircularReferences(s, obj, 0)

(* --------------------------- effect (src 109-137) ---------------------- *)
\* src/index.js 117-122: effectStack.push(wrappedEffect) and the warning
Entered(s, e) ==
    [s EXCEPT !.effectStack = Append(@, e),
              !.log.stackWarns = @ + (IF Len(s.effectStack) + 1 >= EFFECT_STACK_WARNING_THRESHOLD
                                      THEN 1 ELSE 0)]

\* The run is counted (direct: started by the trigger of the top-level
\* operation itself), and the slots it reads are noted from here on.  The log
\* has no entry for the effects nested creation makes beyond EffectIds.
Counted(s, e, direct) ==
    IF e \notin EffectIds THEN s
    ELSE [s EXCEPT !.log.runs[e] = @ + 1,
                   !.log.reads[e] = {},
                   !.lastReads[e] = {},
                   !.log.direct[e] = @ + (IF direct THEN 1 ELSE 0),
                   !.log.calls = IF s.effects[e].c = "none" THEN @
                                 ELSE [@ EXCEPT ![s.effects[e].c] = @ + 1]]

\* src/index.js 114-124: wrappedEffect up to the call of fn.  The frame
\* pushed is the call of fn; its return (Return below) is the finally.
StartRun(s, e, deliver) ==
    Push(Counted(Entered(cleanup(s, e), e), e, Len(s.ctl) = 2 /\ Top(s).kind = "fan"),
         CallFrame(ProgOf(s.effects[e]), e, s.effects[e].c, deliver))

\* the functions that the function of an effect passes to effect()
Nested == {"nest", "inner"}

\* the effects MaxEffects bounds: not those of computed nor of nested creation
UserEffects(s) ==
    {e \in 1..Len(s.effects) : s.effects[e].c = "none" /\ s.effects[e].fn \notin Nested}

\* src/index.js 134: wrappedEffect.deps = []
Created(s, fn, root, c, n) ==
    [s EXCEPT !.effects = Append(@, [fn |-> fn, root |-> root, c |-> c, n |-> n,
                                     deps |-> <<>>])]

\* An effect() with no ceiling.
StackNeverFull(s) == FALSE

\* src/index.js 110: effectStack.length >= MAX_EFFECT_STACK_SIZE
StackFull(s) == Len(s.effectStack) >= MAX_EFFECT_STACK_SIZE

\* src/index.js 109-112, 134-135: effect(fn) up to the first run.
\* c names the computed when computed's getter is the caller.
\* n is the depth the function of createNestedEffect closes over.
\* The effects `outer` creates, one at each of its runs, are bounded by the
\* number of effects the histories have room for.
effect(s, fn, root, c, deliver, n) ==
    IF StackFull(s) THEN Raise(s, ERR_MAX_STACK)
    ELSE IF c = "none" /\ fn \notin Nested /\ Cardinality(UserEffects(s)) >= MaxEffects
    THEN Raise(s, OutOfBound)
    ELSE IF fn = "inner" /\ Len(s.effects) >= Cardinality(EffectIds)
    THEN Raise(s, OutOfBound)
    ELSE StartRun(Created(s, fn, root, c, n), Len(s.effects) + 1, deliver)

(* --------------------- statements of user code ------------------------ *)
\* the expression h[key]
GetVia(s, h, key) ==
    IF h = Undef THEN Throw(s, TypeError)
    ELSE IF ~IsObject(h) THEN Ok(s, Undef)
    ELSE Get(s, h, key)

RECURSIVE Walk(_, _, _)
\* the expression h.k1.k2...
Walk(s, h, path) ==
    IF path = <<>> THEN Ok(s, h)
    ELSE Bind(GetVia(s, h, Head(path)), LAMBDA g : Walk(g.s, g.val, Tail(path)))

\* x = root.k1...kn
ExecGet(s, i) == Finish(Walk(s, i.root, i.path))

\* if (x === val) y = root.k1...kn, x being the value just read
ExecGetIf(s, i) == IF Top(s).acc = i.val THEN ExecGet(s, i) ELSE Advance(s, Undef)

\* A handler has returned: trigger() of the first slot it triggers is called.
AfterWrite(r) ==
    IF r.err # NoError THEN Raise(r.s, r.err)
    ELSE IF r.triggers = <<>> THEN Advance(r.s, Undef)
    ELSE Push(Advance(r.s, Undef), FanFrame(r.triggers))

\* w.val[key] = val   (a module is strict code: assigning to a property of
\* undefined or of a primitive is a TypeError)
SetAt(w, key, val) ==
    IF ~IsObject(w.val) THEN Throw(w.s, TypeError) ELSE Set(w.s, w.val, key, val)

\* root.k1...kn.key = val
ExecSet(s, i) ==
    AfterWrite(Bind(Walk(s, i.root, i.path), LAMBDA w : SetAt(w, i.key, i.val)))

\* root.count = the other primitive than the one just read
Other(v) == IF v = "v0" THEN "v1" ELSE "v0"
ExecFlip(s, i) == ExecSet(s, ISet(i.root, <<>>, "count", Other(Top(s).acc)))

\* toRaw(root)
ExecToRaw(s, i) == Advance(s, toRaw(s, i.root))

\* Object.freeze(root): on a proxy, which has no trap for them,
\* preventExtensions and defineProperty act on the target
ExecFreeze(s, i) == Advance([s EXCEPT !.frozen = @ \cup {RawOf(s, i.root)}], i.root)

\* if (x === val) throw new Error("user error"), x being the value just read
ExecFailIf(s, i) ==
    IF Top(s).acc = i.val THEN Raise(s, UserError) ELSE Advance(s, Top(s).acc)

\* delete root.key
ExecDelete(s, i) ==
    AfterWrite(IF ~IsObject(i.root) THEN Throw(s, TypeError)
               ELSE DeleteProperty(s, i.root, i.key))

\* src/index.js 295-298: R.value
ExecRefGet(s, i) == Advance(track(Seen(s, RefName, "value"), RefName, "value"), s.refValue)

\* src/index.js 299-304: R.value = val
ExecRefSet(s, i) ==
    IF s.refValue # i.val
    THEN Push(Advance([s EXCEPT !.refValue = i.val], Undef), FanFrame(<<<<RefName, "value">>>>))
    ELSE Advance(s, Undef)

\* src/index.js 413-420: the ref is the one object with _value and a getter
isRef(value) == value = RefName

\* src/index.js 429-431: unref(value)
ExecUnref(s, i) == IF isRef(i.root) THEN ExecRefGet(s, i) ELSE Advance(s, i.root)

\* src/index.js 358: callback(newValue, oldValue), newValue being the value of
\* the statement before.  The log keeps the arguments, the ref's value at the
\* call and the newValue of the invocation before this one.
ExecCallback(s, i) ==
    Advance([s EXCEPT !.log.cb = Append(@, [e |-> Top(s).e, new |-> Top(s).acc,
                                            old |-> s.watchOldValue[Top(s).e],
                                            cur |-> s.refValue,
                                            prev |-> s.cbLast[Top(s).e]]),
                      !.cbLast[Top(s).e] = Top(s).acc],
            Top(s).acc)

\* callback(newValue, oldValue) with a callback that reads a reactive object:
\* (newValue, oldValue) => { dummy = root.k1...kn }.  It runs inside the call
\* of the effect's function: the get traps it enters find the watcher's
\* effect on top of the effect stack.
CallbackAfter(w, i) == IF w.err # NoError THEN Raise(w.s, w.err) ELSE ExecCallback(w.s, i)
ExecCallbackGet(s, i) == CallbackAfter(Walk(s, i.root, i.path), i)

\* A watcher that forgets the value it saw.
StoreOldNot(s, e, newValue) == s

\* src/index.js 359: oldValue = newValue
StoreOld(s, e, newValue) == [s EXCEPT !.watchOldValue[e] = newValue]

ExecStoreOld(s, i) == Advance(StoreOld(s, Top(s).e, Top(s).acc), Undef)

\* src/index.js 317-321, 341: computed(getter)
ExecComputed(s, i) ==
    Advance([s EXCEPT !.computeds[i.c] = [made |-> TRUE, dirty |-> TRUE, eff |-> 0,
                                          cached |-> Undef]], i.c)

\* src/index.js 324: if (dirty)
IsDirty(C) == C.dirty

\* src/index.js 323-331: c.value up to the call of effect() or of getter()
ExecValue(s, i) ==
    IF ~IsDirty(s.computeds[i.c]) THEN Advance(s, s.computeds[i.c].cached)
    ELSE IF s.computeds[i.c].eff = 0
    THEN effect(Push(Called(s), ValueFrame(i.c, Len(s.effects) + 1)),
                Getter(i.c), "-", i.c, "none", 0)
    ELSE Push(Push([Called(s) EXCEPT !.log.calls[i.c] = @ + 1], ValueFrame(i.c, 0)),
              CallFrame(Prog(Getter(i.c), "-"), 0, i.c, "none"))

\* A value getter that leaves dirty as it is.
MarkCleanNot(C) == C

\* src/index.js 332: dirty = false
MarkClean(C) == [C EXCEPT !.dirty = FALSE]

\* src/index.js 326, 332-334: effect() or getter() has returned into c.value
ValueReturn(s) ==
    [Pop(s) EXCEPT !.computeds[Top(s).c] =
                       MarkClean(IF Top(s).e > 0 THEN [@ EXCEPT !.eff = Top(s).e] ELSE @),
                   !.ctl[Len(s.ctl) - 1].acc = s.computeds[Top(s).c].cached]

\* A reactive() that hands its argument back.
WrappedAsItself(s, i) == Ok(s, i.root)

\* src/index.js 277, 372, 384-385
Wrapped(s, i) ==
    IF i.op = "shallowReactive" /\ ~IsObject(i.root) THEN Ok(s, i.root)
    ELSE IF ~IsObject(i.root) THEN Throw(s, TypeError)     \* new Proxy(primitive)
    ELSE createProxy(s, i.root, i.op = "shallowReactive", i.op = "readonly", 0)

\* The history of readonly(): it created the proxy it returns ("created"),
\* or found it in the cache, made by another call ("cached").
Recorded(r, i, had) ==
    IF r.err = NoError /\ i.op = "readonly"
    THEN [r EXCEPT !.s.fromReadonly[r.val] =
                       IF ~had THEN "created" ELSE IF @ = "never" THEN "cached" ELSE @]
    ELSE r

\* src/index.js 277, 372, 385: the wrapper is made or found, and returned
Returned(s, i) == Finish(Recorded(Wrapped(s, i), i, CacheHas(s, i.root)))

\* src/index.js 274-282, 371-373, 383-386: reactive() validates first
ExecWrap(s, i) ==
    IF i.op = "reactive" THEN validateReactiveTarget(Push(s, WrapFrame(i)), i.root)
    ELSE Returned(s, i)

\* part_001 240-248: createNestedEffect(depth)
ExecNest(s, i) ==
    IF i.n <= 0 THEN Advance(s, Undef)
    ELSE effect(Called(s), "nest", i.root, "none", "none", i.n)

\* part_001 222-227: A.nested = createDeepObject(depth - 1), which makes A the
\* outermost of depth + 1 objects, each the value of `nested` of the one
\* above it, the innermost (at depth `depth`) holding a primitive
Chained(heap0, depth) ==
    [o \in DOMAIN heap0 \cup {DeepName(k) : k \in 1..depth} |->
        IF o = "A" THEN [heap0["A"] EXCEPT !["nested"] = DeepName(1)]
        ELSE IF o \in DOMAIN heap0 THEN heap0[o]
        ELSE [key \in HeapKeys |->
                 IF key = "nested" /\ DeepIndex(o) < depth THEN DeepName(DeepIndex(o) + 1)
                 ELSE IF key = "count" /\ DeepIndex(o) = depth THEN "v0"
                 ELSE Absent]]

ExecBuild(s, i) == Advance([s EXCEPT !.heap = Chained(@, i.n)], Undef)

\* the statement at pc of the running function
Exec(s) ==
    LET i == Top(s).prog[Top(s).pc]
    IN CASE i.op = "get" -> ExecGet(s, i)
         [] i.op = "set" -> ExecSet(s, i)
         [] i.op = "delete" -> ExecDelete(s, i)
         [] i.op = "refget" -> ExecRefGet(s, i)
         [] i.op = "refset" -> ExecRefSet(s, i)
         [] i.op = "computed" -> ExecComputed(s, i)
         [] i.op = "value" -> ExecValue(s, i)
         [] i.op = "effect" -> effect(Called(s), i.fn, i.root, "none", "handle", 0)
         [] i.op = "unref" -> ExecUnref(s, i)
         [] i.op = "callback" -> ExecCallback(s, i)
         [] i.op = "storeOld" -> ExecStoreOld(s, i)
         [] i.op = "callbackGet" -> ExecCallbackGet(s, i)
         [] i.op = "watchOn" -> effect(Called(s), i.fn, i.root, "none", "none", 0)
         [] i.op = "watch" -> effect(Called(s), i.fn, "-", "none", "none", 0)
         [] i.op = "call" -> StartRun(Called(s), EIndex(i.root), "none")
         [] i.op = "nest" -> ExecNest(s, i)
         [] i.op = "build" -> ExecBuild(s, i)
         [] i.op = "flip" -> ExecFlip(s, i)
         [] i.op = "failIf" -> ExecFailIf(s, i)
         [] i.op = "getIf" -> ExecGetIf(s, i)
         [] i.op = "freeze" -> ExecFreeze(s, i)
         [] i.op = "toRaw" -> ExecToRaw(s, i)
         [] i.op \in {"reactive", "shallowReactive", "readonly"} -> ExecWrap(s, i)

(* ------------------------- top-level operations ----------------------- *)
NoLog == [runs |-> [e \in EffectIds |-> 0], direct |-> [e \in EffectIds |-> 0],
          calls |-> [c \in Computeds |-> 0], warns |-> 0, stackWarns |-> 0,
          cb |-> <<>>, reads |-> [e \in EffectIds |-> {}], errs |-> 0]

NoOp == [instr |-> Instr("none"), via |-> Undef, readers |-> {}, before |-> Undef,
         cached |-> "none", had |-> {}, heap |-> <<>>, lastReads |-> <<>>, caches |-> <<>>,
         subs |-> <<>>]

\* What the operation found when it began:
\*   via      the object a write or delete acts on (the value of root.k1...kn)
\*   readers  the effects subscribed to the key of via's target: those that
\*            read the key through via; for a write of the ref, the effects
\*            subscribed to its value
\*   before   the own value of the key in the plain object under via; the
\*            ref's value; the computed's cachedValue
\*   cached   the proxy the cache held for root
\*   had      the computeds that had their effect
\*   heap     the plain objects as reactive(), a write or a delete found them
\*   lastReads  the slots the last run of each effect had read, for a write
\*   caches   reactiveCache as reactive() found it
\*   subs     targetMap as a write or reactive() found it
Found(s, i, via) ==
    [instr |-> i, via |-> via,
     readers |-> IF IsProxy(via)
                 THEN {e \in 1..Len(s.effects) :
                          InSeq(e, s.targetMap[<<ProxyOf(s, via).target, i.key>>])}
                 ELSE IF i.op = "refset"
                 THEN {e \in 1..Len(s.effects) : InSeq(e, s.targetMap[<<RefName, "value">>])}
                 ELSE {},
     before |-> IF i.op = "value" THEN s.computeds[i.c].cached
                ELSE IF i.op = "refset" THEN s.refValue
                ELSE IF IsObject(via) /\ i.key \in DOMAIN s.heap[RawOf(s, via)]
                THEN s.heap[RawOf(s, via)][i.key]
                ELSE Undef,
     cached |-> IF i.root \in DOMAIN s.reactiveCache THEN s.reactiveCache[i.root] ELSE "none",
     had |-> {c \in Computeds : s.computeds[c].eff # 0},
     heap |-> IF i.op \in {"reactive", "set", "delete"} THEN s.heap ELSE <<>>,
     lastReads |-> IF i.op = "set" THEN s.lastReads ELSE <<>>,
     caches |-> IF i.op = "reactive" THEN s.reactiveCache ELSE <<>>,
     subs |-> IF i.op \in {"set", "reactive"} THEN s.targetMap ELSE <<>>]

\* ... the object root.k1...kn being as the walk to it found it
FoundAt(w, i) == Found(w.s, i, IF w.err = NoError /\ IsObject(w.val) THEN w.val ELSE Undef)

OpOf(s, i) ==
    IF i.op \in {"set", "delete"} THEN FoundAt(Walk(s, i.root, i.path), i)
    ELSE Found(s, i, Undef)

\* User code at top level runs the statement i.
Begin(s, i) ==
    Exec([s EXCEPT !.ctl = <<CallFrame(<<i>>, 0, "none", "none")>>, !.err = NoError,
                   !.op = OpOf(s, i), !.log = NoLog])

Take(s) == s.err # OutOfBound /\ Commit(s)
\* the statement i as one evaluation of it holds it: a record of its own
Issued(i) == [op |-> i.op, root |-> i.root, path |-> i.path, key |-> i.key, val |-> i.val,
              fn |-> i.fn, c |-> i.c, n |-> i.n]
Run(i) == Idle /\ Take(Begin(Pack, Issued(i)))

Holds == Allocated(Pack)                       \* the proxies user code holds
HoldsOf(o) == {h \in Holds : RawOf(Pack, h) = o}  \* those that stand for o

Reactive(x) == Run(IWrap("reactive", x))
ShallowReactive(x) == Run(IWrap("shallowReactive", x))
Readonly(x) == Run(IWrap("readonly", x))
Effect(fn, w) == (fn = "readCA" => computeds["CA"].made) /\ Run(IEffect(fn, w))
Read(h, path) == Run(IGet(h, path))
Write(h, path, key, val) == Run(ISet(h, path, key, val))
Delete(h, key) == Run(IDelete(h, key))
WriteRef(val) == Run(IRefSet(val))
\* CB's getter and readCA close over CA
Computed(c) == ~computeds[c].made /\ (c = "CB" => computeds["CA"].made) /\ Run(IComputed(c))
Value(c) == computeds[c].made /\ Run(IValue(c))
ToRaw(x) == Run(IToRaw(x))
\* Object.freeze(x), once
Freeze(x) == RawOf(Pack, x) \notin frozen /\ Run(IFreeze(x))
\* watch(R, cb) and watch(() => R.value, cb)
Watch(fn) == Run(IWatch(fn))
\* watch(() => R.value, (newValue, oldValue) => { dummy = w.count })
WatchOn(fn, w) == Run(IWatchOn(fn, w))
\* handle(), handle being what effect() returned
Call(handle) == Run(ICall(handle))
Handles == {EffectNames[e] : e \in UserEffects(Pack)}
\* createNestedEffect(depth), once
Nest(w, depth) == effects = <<>> /\ Run(INest(w, depth))
\* A.nested = createDeepObject(depth - 1), once
BuildDeep(depth) == DOMAIN heap = Raw \cup {Arr} /\ Run(IBuild(depth))
\* part_001 227: the depths around the ceiling of the validation
DeepDepths == {MAX_RECURSION_DEPTH - 1, MAX_RECURSION_DEPTH}
\* part_001 251, 271: the depths around the threshold and the ceiling
NestDepths == {EFFECT_STACK_WARNING_THRESHOLD - 1, EFFECT_STACK_WARNING_THRESHOLD,
               EFFECT_STACK_WARNING_THRESHOLD + 1, MAX_EFFECT_STACK_SIZE,
               MAX_EFFECT_STACK_SIZE + 1}

(* --------------------------- internal steps --------------------------- *)
Running == ctl # <<>> /\ err = NoError

\* the running function executes its next statement
Statement ==
    /\ Running /\ Top(Pack).kind = "call" /\ Top(Pack).pc <= Len(Top(Pack).prog)
    /\ Take(Exec(Pack))

\* A run that leaves its entry on the stack.
LeftOnStack(s, f) == s

\* src/index.js 129-131: finally { effectStack.pop() }
Left(s, f) == IF f.e > 0 THEN [s EXCEPT !.effectStack = Front(@)] ELSE s
\* src/index.js 327, 330: cachedValue = getter()
Stored(s, f) == IF f.c # "none" THEN [s EXCEPT !.computeds[f.c].cached = f.acc] ELSE s
\* The caller receives the function's value.  When user code at top level
\* does, the operation is over.
Delivered(s, f) ==
    IF s.ctl = <<>> THEN [s EXCEPT !.op = NoOp, !.log = NoLog]
    ELSE IF f.deliver = "handle" THEN [s EXCEPT !.ctl[Len(s.ctl)].acc = EffectNames[f.e]]
    ELSE s

\* the running function returns
Return ==
    /\ Running /\ Top(Pack).kind = "call" /\ Top(Pack).pc > Len(Top(Pack).prog)
    /\ Commit(Delivered(Pop(Left(Stored(Pack, Top(Pack)), Top(Pack))), Top(Pack)))

ValueDone == Running /\ Top(Pack).kind = "value" /\ Commit(ValueReturn(Pack))

\* src/index.js 193-200: trigger(target, key) copies the slot's Set
Trigger ==
    /\ Running /\ Top(Pack).kind = "fan" /\ Top(Pack).queue = <<>> /\ Top(Pack).pending # <<>>
    /\ Commit([Pack EXCEPT !.ctl[Len(ctl)].queue = effectsToRun(Pack, Head(Top(Pack).pending)),
                           !.ctl[Len(ctl)].pending = Tail(@)])

\* wrappedEffect (src/index.js 114-132) has no test of the ceiling: effects
\* re-entered through trigger nest until the engine's call stack is used up.
\* The engine holds the MAX_EFFECT_STACK_SIZE runs nested creation needs
\* (part_001 237-254); the model lets it give up at the first run after one
\* past that ceiling.
EngineGivesUp(s) == Len(s.effectStack) > MAX_EFFECT_STACK_SIZE

\* src/index.js 201: effectsToRun.forEach((effect) => effect())
RunNext ==
    /\ Running /\ Top(Pack).kind = "fan" /\ Top(Pack).queue # <<>>
    /\ Commit(IF EngineGivesUp(Pack) THEN Raise(Pack, RangeError)
              ELSE StartRun([Pack EXCEPT !.ctl[Len(ctl)].queue = Tail(@)],
                            Head(Top(Pack).queue), "none"))

\* the last trigger of a handler has returned
TriggerDone ==
    /\ Running /\ Top(Pack).kind = "fan" /\ Top(Pack).queue = <<>> /\ Top(Pack).pending = <<>>
    /\ Commit(Pop(Pack))

\* src/index.js 84-94: forEach calls checkCircularReferences for the next object
CheckNext ==
    /\ Running /\ Top(Pack).kind = "check" /\ Top(Pack).pc = 1 /\ Top(Pack).queue # <<>>
    /\ Take(checkCircularReferences([Pack EXCEPT !.ctl[Len(ctl)].queue = Tail(@)],
                                    Head(Top(Pack).queue), Top(Pack).depth + 1))

\* src/index.js 96-99: the call returns through its finally
CheckDone ==
    /\ Running /\ Top(Pack).kind = "check" /\ Top(Pack).pc = 1 /\ Top(Pack).queue = <<>>
    /\ Take(Pop(CheckLeft(Pack, Top(Pack))))

\* src/index.js 277: validateReactiveTarget has returned into reactive()
WrapDone ==
    /\ Running /\ Top(Pack).kind = "wrap"
    /\ Take(Returned(Pop(Pack), Top(Pack).prog[1]))

Validation == CheckNext \/ CheckDone \/ WrapDone

\* A run that swallows the exception of its function.
CaughtAndDropped(s, f) == IF f.e > 0 THEN [s EXCEPT !.err = NoError] ELSE s

\* The run on top of the call stack is the one effect() itself makes (src/index.js
\* 135: wrappedEffect() before return wrappedEffect): its caller is the function
\* that called effect(), watch() or createNestedEffect(), not trigger and not
\* the call of a handle.
CalledBy(g) ==
    /\ g.kind = "call" /\ g.pc > 1
    /\ g.prog[g.pc - 1].op \in {"effect", "nest", "watch", "watchOn"}
FirstRun(s) == Len(s.ctl) >= 2 /\ CalledBy(s.ctl[Len(s.ctl) - 1])

\* src/index.js 126-128: catch (error) { console.error(...); throw error }.
\* The history notes the effect whose first run it is.
Caught(s, f) ==
    IF f.e > 0
    THEN [s EXCEPT !.log.errs = @ + 1,
                   !.noHandle = IF FirstRun(s) THEN @ \cup {f.e} ELSE @]
    ELSE s

\* user code at top level catches the exception
Over(s) == IF s.ctl = <<>> THEN [s EXCEPT !.err = NoError, !.op = NoOp, !.log = NoLog] ELSE s

\* An exception leaves the frames one by one; the run of an effect pops the
\* effect stack on its way out (src/index.js 126-131), a call of
\* checkCircularReferences that is in its try block deletes its mark (96-98).
Unwind ==
    /\ ctl # <<>> /\ err # NoError
    /\ Take(Over(Pop(IF Top(Pack).kind = "call" THEN Left(Caught(Pack, Top(Pack)), Top(Pack))
                     ELSE IF Top(Pack).kind = "check" /\ Top(Pack).pc = 1
                     THEN CheckLeft(Pack, Top(Pack))
                     ELSE Pack)))

(* ------------------------------ the system ---------------------------- *)
\* the record of the variables after the module is loaded and user code has
\* made its objects and the ref: nothing wrapped, no effect
Loaded ==
    [heap |-> [o \in Raw \cup {Arr} |->
                 IF o = Arr
                 THEN [k \in ArrKeys |-> CASE k = "0" -> "v0"
                                           [] k = "length" -> "n1"
                                           [] OTHER -> Absent]
                 ELSE [k \in HeapKeys |->
                         CASE o = "A" /\ k = "count" -> "v0"
                           [] o = "A" /\ k = "nested" -> "N"
                           [] o = "N" /\ k = "count" -> "v0"
                           [] o = "M" /\ k = "count" -> "v1"
                           [] OTHER -> Absent]],
     frozen |-> {},
     refValue |-> "v0",
     proxies |-> <<>>,
     reactiveCache |-> [o \in Raw \cup {Arr} \cup AllProxies |-> "none"],
     targetMap |-> [slot \in Slots |-> <<>>],
     effects |-> <<>>,
     effectStack |-> <<>>,
     computeds |-> [c \in Computeds |-> [made |-> FALSE, dirty |-> TRUE, eff |-> 0,
                                          cached |-> Undef]],
     ctl |-> <<>>,
     err |-> NoError,
     op |-> NoOp,
     log |-> NoLog,
     fromReadonly |-> [p \in AllProxies |-> "never"],
     watchOldValue |-> [e \in EffectIds |-> Undef],
     cbLast |-> [e \in EffectIds |-> "never"],
     lastReads |-> [e \in EffectIds |-> {}],
     noHandle |-> {}]

\* the variables are as the record s says
StartsAs(s) ==
    /\ heap = s.heap
    /\ frozen = s.frozen
    /\ refValue = s.refValue
    /\ proxies = s.proxies
    /\ reactiveCache = s.reactiveCache
    /\ targetMap = s.targetMap
    /\ effects = s.effects
    /\ effectStack = s.effectStack
    /\ computeds = s.computeds
    /\ ctl = s.ctl
    /\ err = s.err
    /\ op = s.op
    /\ log = s.log
    /\ fromReadonly = s.fromReadonly
    /\ watchOldValue = s.watchOldValue
    /\ cbLast = s.cbLast
    /\ lastReads = s.lastReads
    /\ noHandle = s.noHandle

Init == StartsAs(Loaded)

\* the record of the variables after const w = reactive(A), w being p1
Wrapped1 ==
    [Loaded EXCEPT !.proxies = <<[target |-> "A", shallow |-> FALSE, readonly |-> FALSE,
                                  depth |-> 0]>>,
                   !.reactiveCache["A"] = PName(1)]

\* The record of the variables in the middle of createNestedEffect(depth) on
\* w = p1 (part_001 240-248): j effects are created, each running inside the
\* one before, and the function of the j-th is about to execute its first
\* statement.  Exploration from Init passes through these very states; a
\* specification that also starts from them has short behaviours to the states
\* near the ceiling.
NestedTo(depth, j) ==
    [Wrapped1 EXCEPT
        !.effects = [i \in 1..j |->
                        [fn |-> "nest", root |-> PName(1), c |-> "none", n |-> depth - i + 1,
                         deps |-> IF i < j THEN <<<<"A", "count">>>> ELSE <<>>]],
        !.effectStack = [i \in 1..j |-> i],
        !.targetMap[<<"A", "count">>] = [i \in 1..(j - 1) |-> i],
        !.ctl = <<[CallFrame(<<INest(PName(1), depth)>>, 0, "none", "none") EXCEPT !.pc = 2]>>
                \o [i \in 1..j |->
                       [CallFrame(<<IGet(PName(1), <<"count">>), INest(PName(1), depth - i)>>,
                                  i, "none", "none")
                            EXCEPT !.pc = IF i < j THEN 3 ELSE 1,
                                   !.acc = IF i < j THEN "v0" ELSE Undef]],
        !.op = OpOf(Wrapped1, INest(PName(1), depth)),
        !.lastReads = [e \in EffectIds |-> IF e < j THEN {<<"A", "count">>} ELSE {}],
        !.log = [NoLog EXCEPT
                    !.runs = [e \in EffectIds |-> IF e <= j THEN 1 ELSE 0],
                    !.reads = [e \in EffectIds |-> IF e < j THEN {<<"A", "count">>} ELSE {}],
                    !.stackWarns = IF j >= EFFECT_STACK_WARNING_THRESHOLD
                                   THEN j - EFFECT_STACK_WARNING_THRESHOLD + 1 ELSE 0]]

Steps == Statement \/ Return \/ Trigger \/ RunNext \/ TriggerDone

\* Wrappers, effects and writes.
Next ==
    \/ \E x \in {"A", "N"} \cup Holds : Reactive(x) \/ ShallowReactive(x) \/ Readonly(x)
    \/ \E w \in Holds, fn \in {"readCount", "readNested"} : Effect(fn, w)
    \/ \E h \in Holds : Read(h, <<"nested">>)
    \/ \E h \in Holds, v \in Prims : Write(h, <<>>, "count", v) \/ Write(h, <<"nested">>, "count", v)
    \/ \E h \in HoldsOf("A"), o \in {"N", "M"} : Write(h, <<>>, "nested", o)
    \/ \E h \in Holds : Delete(h, "count")
    \/ Steps
    \/ Validation

Spec == Init /\ [][Next]_vars

\* Wrappers, reads and writes with no effect created: no slot has a
\* subscriber, trigger finds nothing to run, and no function of user code is
\* called (Statement is a step of such a function).
NextWrappers ==
    \/ \E x \in {"A", "N"} \cup Holds : Reactive(x) \/ ShallowReactive(x) \/ Readonly(x)
    \/ \E h \in Holds : Read(h, <<"nested">>)
    \/ \E h \in Holds, v \in Prims : Write(h, <<>>, "count", v) \/ Write(h, <<"nested">>, "count", v)
    \/ \E h \in HoldsOf("A"), o \in {"N", "M"} : Write(h, <<>>, "nested", o)
    \/ \E h \in Holds : Delete(h, "count")
    \/ Return \/ Trigger \/ TriggerDone
    \/ Validation

SpecWrappers == Init /\ [][NextWrappers]_vars

\* Refs, computed values and watchers.
NextComputed ==
    \/ \E c \in Computeds : Computed(c) \/ Value(c)
    \/ \E v \in Prims : WriteRef(v)
    \/ \E fn \in {"readRef", "readCA"} : Effect(fn, "-")
    \/ \E fn \in {"watchRef", "watchGetter"} : Watch(fn)
    \/ Steps
    \/ ValueDone

SpecComputed == Init /\ [][NextComputed]_vars

\* Effects and their handles: user code also writes the plain object A itself,
\* which triggers nothing, and calls the handle.
NextEffects ==
    \/ \E x \in {"A"} \cup Holds : Reactive(x) \/ ShallowReactive(x)
    \/ \E w \in Holds, fn \in {"readCount", "readNested"} : Effect(fn, w)
    \/ \E o \in {"N", "v1"} : Write("A", <<>>, "nested", o)
    \/ \E h \in Holds, v \in Prims : Write(h, <<>>, "count", v)
    \/ \E handle \in Handles : Call(handle)
    \/ Steps
    \/ Validation

SpecEffects == Init /\ [][NextEffects]_vars

\* Nested effect creation up to the ceiling of the effect stack.
NextStack ==
    \/ Reactive("A")
    \/ \E w \in Holds, depth \in NestDepths : Nest(w, depth)
    \/ Statement
    \/ Return
    \/ Validation
    \/ Unwind

\* NestedTo(depth, depth - 3) is the state createNestedEffect(depth) is in when
\* it has created depth - 3 effects: this holds of NextStack started from Init.
SpecStackFromInit == Init /\ [][NextStack]_vars
NestedToIsReached ==
    \A depth \in NestDepths :
        (/\ op.instr.op = "nest" /\ op.instr.n = depth /\ err = NoError
         /\ Len(effects) = depth - 3 /\ Len(effectStack) = depth - 3
         /\ Top(Pack).e = depth - 3 /\ Top(Pack).pc = 1)
        => Pack = NestedTo(depth, depth - 3)

\* ... from the start, and from createNestedEffect(depth) three effects
\* short of its last
InitStack == Init \/ \E depth \in NestDepths : StartsAs(NestedTo(depth, depth - 3))

SpecStack == InitStack /\ [][NextStack]_vars

\* Validation of plain objects: user code links the plain objects to one
\* another as it likes (part_001 70-71: obj.circular = obj) and calls reactive.
NextCircular ==
    \/ \E x \in Raw, o \in Raw : Write(x, <<>>, "nested", o)
    \/ \E o \in Raw : Write("A", <<>>, "count", o)
    \/ \E x \in Raw : Reactive(x)
    \/ Return
    \/ Validation
    \/ Unwind

SpecCircular == Init /\ [][NextCircular]_vars

\* Validation of deeply nested plain objects.
NextDeep ==
    \/ \E depth \in DeepDepths : BuildDeep(depth)
    \/ Reactive("A")
    \/ Return
    \/ Validation
    \/ Unwind

SpecDeep == Init /\ [][NextDeep]_vars

\* The three ways to wrap, given a plain object (which user code may have
\* made circular), a primitive or null.
NextTargets ==
    \/ \E o \in {"A", "N", "M"} : Write("A", <<>>, "nested", o)
    \/ \E x \in {"A", "N", "v0", Null} : Reactive(x) \/ ShallowReactive(x) \/ Readonly(x)
    \/ Return
    \/ Validation
    \/ Unwind

SpecTargets == Init /\ [][NextTargets]_vars

\* Several subscribers of the ref's value, one of which throws: the effect of
\* the computed CA and an effect of user code.
NextFanout ==
    \/ Computed("CA") \/ Value("CA")
    \/ \E v \in Prims : WriteRef(v)
    \/ \E fn \in {"readRef", "failRef"} : Effect(fn, "-")
    \/ Steps
    \/ ValueDone
    \/ Unwind

SpecFanout == Init /\ [][NextFanout]_vars

\* The runs of effects on a wrapper of A and on the wrappers reached through
\* it: functions that read, once or twice, one that reads `nested` only when
\* the count is v0, one that throws when the count is v1, and one that
\* creates an effect inside its run; user code also reads at top level.
NextRuns ==
    \/ Reactive("A")
    \/ \E w \in Holds, fn \in {"readCount", "readTwice", "failCount", "branch", "outer"} :
          Effect(fn, w)
    \/ \E w \in Holds : Read(w, <<"count">>)
    \/ \E w \in Holds, v \in Prims : Write(w, <<>>, "count", v)
    \/ \E w \in HoldsOf("A"), o \in {"N", "v1"} : Write(w, <<>>, "nested", o)
    \/ Steps
    \/ Validation
    \/ Unwind

SpecRuns == Init /\ [][NextRuns]_vars

\* reactive() of A and of the wrappers user code holds, at top level and
\* inside the function of an effect; readonly wrappers, whose traps refuse
\* the mark; an effect that reads, and writes that re-run what is subscribed.
NextValidate ==
    \/ Reactive("A") \/ Readonly("A")
    \/ \E w \in Holds : Reactive(w)
    \/ \E w \in Holds, fn \in {"rewrap", "readCount"} : Effect(fn, w)
    \/ \E w \in Holds, v \in Prims : Write(w, <<>>, "count", v)
    \/ \E w \in HoldsOf("A") : Write(w, <<>>, "nested", "v1")
    \/ Steps
    \/ Validation
    \/ Unwind

SpecValidate == Init /\ [][NextValidate]_vars

\* Wrappers of A, which user code may freeze, before or after it is wrapped.
NextFrozen ==
    \/ Reactive("A") \/ ShallowReactive("A") \/ Readonly("A")
    \/ \E x \in {"A"} \cup Holds : Freeze(x)
    \/ \E w \in Holds : Effect("readCount", w)
    \/ \E w \in Holds, v \in Prims : Write(w, <<>>, "count", v)
    \/ \E w \in Holds : Delete(w, "count") \/ Read(w, <<"nested">>)
    \/ Steps
    \/ Validation
    \/ Unwind

SpecFrozen == Init /\ [][NextFrozen]_vars

\* The calls that fail: reactive() of a primitive, of a plain object that user
\* code has made circular (a.nested.nested = a) and of a wrapper of it, and
\* effect() at the ceiling of the effect stack.
NextFailures ==
    \/ Write("N", <<>>, "nested", "A")
    \/ \E x \in {"A", "v0"} \cup Holds : Reactive(x)
    \/ \E w \in Holds : Read(w, <<"nested">>)
    \/ \E w \in Holds, depth \in NestDepths : Nest(w, depth)
    \/ Statement
    \/ Return
    \/ Validation
    \/ Unwind

SpecFailures == InitStack /\ [][NextFailures]_vars

\* Wrappers of A and wrappers of those, and toRaw of each, of the plain object
\* and of values that are not objects.
NextRaw ==
    \/ \E x \in {"A"} \cup Holds : Reactive(x) \/ ShallowReactive(x) \/ Readonly(x)
    \/ \E w \in Holds : Read(w, <<"nested">>)
    \/ \E x \in {"A", "v0", Null} \cup Holds : ToRaw(x)
    \/ Return
    \/ Validation

SpecRaw == Init /\ [][NextRaw]_vars

\* A wrapper of the array L (part_001 56-67): effects that read an element or
\* the length, writes of the elements, within the length and beyond it, and of
\* the length.  The elements are primitives: the validation of L visits none.
NextArray ==
    \/ Reactive(Arr)
    \/ \E w \in Holds, fn \in {"readFirst", "readLength"} : Effect(fn, w)
    \/ \E w \in Holds, k \in {"0", "1"}, v \in Prims : Write(w, <<>>, k, v)
    \/ \E w \in Holds, n \in {0, 1} : Write(w, <<>>, "length", Number(n))
    \/ \E w \in Holds : Read(w, <<"length">>)
    \/ Steps
    \/ CheckDone
    \/ WrapDone

SpecArray == Init /\ [][NextArray]_vars

\* A watcher of the ref whose callback reads a wrapper of A; user code writes
\* the ref and the slot the callback reads.
NextWatch ==
    \/ Reactive("A")
    \/ \E w \in Holds : WatchOn("watchReading", w)
    \/ \E v \in Prims : WriteRef(v)
    \/ \E w \in Holds, v \in Prims : Write(w, <<>>, "count", v)
    \/ Steps
    \/ CheckNext
    \/ CheckDone
    \/ WrapDone

SpecWatch == Init /\ [][NextWatch]_vars

\* An effect that writes the slot it read: every run triggers the next one.
NextReentry ==
    \/ Reactive("A")
    \/ \E w \in Holds : Effect("toggle", w)
    \/ \E w \in Holds, v \in Prims : Write(w, <<>>, "count", v)
    \/ Steps
    \/ Validation
    \/ Unwind

\* The record of the variables in the middle of effect(toggle) on w = p1: the
\* effect is in its j-th run, each run started by the trigger of the write of
\* the run before, and is about to execute its first statement.
ReenteredTo(j) ==
    [Wrapped1 EXCEPT
        !.heap["A"]["count"] = IF j % 2 = 1 THEN "v0" ELSE "v1",
        !.effects = <<[fn |-> "toggle", root |-> PName(1), c |-> "none", n |-> 0,
                       deps |-> <<>>]>>,
        !.effectStack = [i \in 1..j |-> 1],
        !.ctl = <<[CallFrame(<<IEffect("toggle", PName(1))>>, 0, "none", "none")
                      EXCEPT !.pc = 2]>>
                \o [k \in 1..(2 * j - 1) |->
                       IF k % 2 = 0 THEN FanFrame(<<>>)
                       ELSE [CallFrame(Prog("toggle", PName(1)), 1, "none",
                                       IF k = 1 THEN "handle" ELSE "none")
                                EXCEPT !.pc = IF k < 2 * j - 1 THEN 3 ELSE 1]],
        !.op = OpOf(Wrapped1, IEffect("toggle", PName(1))),
        !.log = [NoLog EXCEPT
                    !.runs[1] = j,
                    !.stackWarns = IF j >= EFFECT_STACK_WARNING_THRESHOLD
                                   THEN j - EFFECT_STACK_WARNING_THRESHOLD + 1 ELSE 0]]

\* ReenteredTo(j) is the state effect(toggle) is in at the start of the j-th
\* run when the count was never written before the effect was created, for
\* the j the specification also starts from: this holds of NextReentry
\* started from Init.
SpecReentryFromInit == Init /\ [][NextReentry]_vars
ReenteredToIsReached ==
    (/\ op.instr.op = "effect" /\ err = NoError
     /\ Len(effectStack) = MAX_EFFECT_STACK_SIZE - 1
     /\ heap["A"]["count"] = ReenteredTo(MAX_EFFECT_STACK_SIZE - 1).heap["A"]["count"]
     /\ Top(Pack).kind = "call" /\ Top(Pack).pc = 1)
    => Pack = ReenteredTo(MAX_EFFECT_STACK_SIZE - 1)

\* ... from the start, and from the run of effect(toggle) two short of the
\* ceiling
InitReentry == Init \/ StartsAs(ReenteredTo(MAX_EFFECT_STACK_SIZE - 1))

SpecReentry == InitReentry /\ [][NextReentry]_vars

(* ------------------------------ properties ---------------------------- *)
\* The top-level operation has returned normally to user code, which has not
\* gone on yet: op and log describe the whole operation.
Finished ==
    /\ Len(ctl) = 1 /\ err = NoError
    /\ ctl[1].kind = "call" /\ ctl[1].pc > Len(ctl[1].prog)
\* the value it returned
Result == ctl[1].acc
Did(o) == Finished /\ op.instr.op = o

RECURSIVE Writable(_)
\* no wrapper on the way from h to the plain object is readonly
Writable(h) == h \in Raw \/ (~ProxyOf(Pack, h).readonly /\ Writable(ProxyOf(Pack, h).target))

\* The write stores a value not strictly equal to the old one; the delete
\* removes a key that existed.
StoresAnother ==
    IF op.instr.op = "set" THEN op.instr.val # op.before ELSE op.before # Absent

\* C1: when a write or a delete through a wrapper w returns, every effect that
\* read the key through w in its last run has been re-run exactly once if the
\* write stored another value (the delete removed an existing key), and not at
\* all otherwise.
C1_RerunOnce ==
    (Finished /\ op.instr.op \in {"set", "delete"} /\ IsProxy(op.via) /\ Writable(op.via))
        => \A e \in op.readers : log.runs[e] = IF StoresAnother THEN 1 ELSE 0

\* C1 for the wrappers of plain objects, where it holds: the wrappers
\* reactive(), shallowReactive() and the get trap make of a plain object.
C1_RerunOnceOnPlain ==
    (Finished /\ op.instr.op \in {"set", "delete"} /\ IsProxy(op.via) /\ Writable(op.via)
        /\ toRaw(Pack, op.via) \in Raw)
        => \A e \in op.readers : log.runs[e] = IF StoresAnother THEN 1 ELSE 0

\* C1's case: a write of another value through a wrapper of a plain object
\* has re-run its reader once.
C1_PlainWitness ==
    /\ Did("set") /\ IsProxy(op.via) /\ toRaw(Pack, op.via) \in Raw /\ StoresAnother
    /\ \E e \in op.readers : log.runs[e] = 1 /\ log.direct[e] = 1

\* C2: after a computed has been read once, a write of another value to the
\* ref its getter read invokes the getter zero times before the write returns,
\* and leaves the computed dirty.
C2_LazyInvalidation ==
    (Did("refset") /\ op.instr.val # op.before /\ "CA" \in op.had)
        => log.calls["CA"] = 0 /\ IsDirty(computeds["CA"])

\* C3: computed(getter) invokes the getter zero times and creates no effect;
\* the first read of value invokes the getter exactly once; a later read
\* invokes it zero times and returns the cached value.
C3_LazyAndCached ==
    /\ Did("computed") =>
          /\ log.calls[op.instr.c] = 0
          /\ computeds[op.instr.c].eff = 0
          /\ \A e \in 1..Len(effects) : effects[e].c # op.instr.c
    /\ (Did("value") /\ op.instr.c \notin op.had) => log.calls[op.instr.c] = 1
    /\ (Did("value") /\ op.instr.c \in op.had) =>
          /\ log.calls[op.instr.c] = 0
          /\ Result = op.before

\* C3's case: a second read has returned the value the first one computed.
C3_SecondRead ==
    /\ Did("value") /\ op.instr.c \in op.had
    /\ log.calls[op.instr.c] = 0 /\ Result = op.before /\ Result \in Prims

\* what the getter of c yields on the current state: gA is R.value, gB is
\* CA.value, the value of gA
Yield(c) == refValue

\* C4: a read of the value of a computed returns what its getter yields on
\* the current state.
C4_ValueIsCurrent == Did("value") => Result = Yield(op.instr.c)

\* C5: an effect that read the value of the computed CA is re-run when the ref
\* CA's getter read is written with another value.
C5_ComputedIsObserved ==
    (Did("refset") /\ op.instr.val # op.before /\ "CA" \in op.had)
        => \A e \in 1..Len(effects) : effects[e].fn = "readCA" => log.runs[e] >= 1

\* the wrapper reactive(A) makes of a plain object A
IsReactiveOfPlain(h) ==
    /\ h \in Holds /\ ProxyOf(Pack, h).target \in Raw
    /\ ~ProxyOf(Pack, h).shallow /\ ~ProxyOf(Pack, h).readonly

\* C6: reactive(w) of a wrapper w = reactive(A) returns w.
C6_Idempotent == (Did("reactive") /\ IsReactiveOfPlain(op.instr.root)) => Result = op.instr.root

Wraps == {"reactive", "shallowReactive", "readonly"}

\* no two wrappers of one plain object
OneWrapperEach ==
    \A i, j \in 1..Len(proxies) :
        (proxies[i].target \in Raw /\ proxies[i].target = proxies[j].target) => i = j

\* the cache holds the wrapper of each plain object that has one
CacheIsTheWrapper ==
    \A i \in 1..Len(proxies) :
        proxies[i].target \in Raw => reactiveCache[proxies[i].target] = PName(i)

\* a call on a plain object returns the wrapper the cache held, and a first
\* call a wrapper with the call's options
ReturnsTheWrapper ==
    (Finished /\ op.instr.op \in Wraps /\ op.instr.root \in Raw) =>
        /\ reactiveCache[op.instr.root] = Result
        /\ op.cached # "none" => Result = op.cached
        /\ op.cached = "none" =>
              /\ ProxyOf(Pack, Result).target = op.instr.root
              /\ ProxyOf(Pack, Result).shallow = (op.instr.op = "shallowReactive")
              /\ ProxyOf(Pack, Result).readonly = (op.instr.op = "readonly")

\* the read of a nested plain object through a deep wrapper returns the
\* wrapper the cache holds for it
NestedIsTheWrapper ==
    (Did("get") /\ op.instr.path = <<"nested">> /\ ~ProxyOf(Pack, op.instr.root).shallow
        /\ ProxyOf(Pack, op.instr.root).target \in Raw
        /\ heap[ProxyOf(Pack, op.instr.root).target]["nested"] \in Raw)
        => Result = reactiveCache[heap[ProxyOf(Pack, op.instr.root).target]["nested"]]

\* a wrapper stays what it was made, and the cache's entry what it was
WrappersStay ==
    /\ \A i \in 1..Len(proxies) : Len(proxies') >= i /\ proxies'[i] = proxies[i]
    /\ \A o \in Raw : reactiveCache[o] # "none" => reactiveCache'[o] = reactiveCache[o]

C8_WrapperAndRaw ==
    (Did("reactive") /\ op.instr.root \in Raw) =>
        /\ Result # op.instr.root
        /\ isReactive(Pack, Result)
        /\ ~isReactive(Pack, op.instr.root)
        /\ toRaw(Pack, Result) = op.instr.root

\* C8's case: reactive(A) has returned for a plain object A.
C8_Wrapped ==
    /\ Did("reactive") /\ op.instr.root \in Raw
    /\ Result \in Holds /\ toRaw(Pack, Result) = op.instr.root

\* the assignment through op.via has left the value and warned once
Refused == heap[RawOf(Pack, op.via)][op.instr.key] = op.before /\ log.warns = 1

ShallowReader(w, e) ==
    /\ IsProxy(w) /\ ProxyOf(Pack, w).shallow /\ ProxyOf(Pack, w).target \in Raw
    /\ e \in 1..Len(effects) /\ effects[e].fn = "readNested" /\ effects[e].root = w

\* C10: for w = shallowReactive(A) and an effect that read w.nested.count, a
\* write to w.nested.count does not re-run the effect, and the assignment of
\* another object to w.nested re-runs it.
C10_Shallow ==
    \A e \in 1..Len(effects) :
        (Did("set") /\ ShallowReader(op.instr.root, e)) =>
            /\ (op.instr.path = <<"nested">> /\ op.instr.key = "count") => log.runs[e] = 0
            /\ (op.instr.path = <<>> /\ op.instr.key = "nested" /\ op.instr.val # op.before)
                  => log.runs[e] = 1

\* C10's case: a write of another value to w.nested.count has returned, the
\* value is stored and the effect has not run.
C10_NestedWrite ==
    \E e \in 1..Len(effects) :
        /\ Did("set") /\ ShallowReader(op.instr.root, e)
        /\ op.instr.path = <<"nested">> /\ op.instr.key = "count"
        /\ op.instr.val # op.before /\ heap[op.via]["count"] = op.instr.val
        /\ log.runs[e] = 0

\* w = reactive(A) of a plain A, and e an effect () => w.nested.count
DeepReader(w, e) ==
    /\ IsReactiveOfPlain(w)
    /\ e \in 1..Len(effects) /\ effects[e].fn = "readNested" /\ effects[e].root = w

\* C11: for w = reactive(A) and an effect that read w.nested.count, w.nested
\* is a wrapper of the inner object, and a write of another value to
\* w.nested.count that this wrapper carries out re-runs the effect, once.
C11_Nested ==
    \A e \in 1..Len(effects) :
        (Did("set") /\ DeepReader(op.instr.root, e)
            /\ op.instr.path = <<"nested">> /\ op.instr.key = "count")
        => /\ IsProxy(op.via)
           /\ toRaw(Pack, op.via) = heap[toRaw(Pack, op.instr.root)]["nested"]
           /\ (Writable(op.via) /\ op.instr.val # op.before) => log.runs[e] = 1

\* C11's case: such a write has stored the value and re-run the effect.
C11_NestedWrite ==
    \E e \in 1..Len(effects) :
        /\ Did("set") /\ DeepReader(op.instr.root, e)
        /\ op.instr.path = <<"nested">> /\ op.instr.key = "count"
        /\ op.instr.val # op.before /\ heap[toRaw(Pack, op.via)]["count"] = op.instr.val
        /\ log.runs[e] = 1

\* the invocations, in the operation, of the callback of the watcher e
CallsOf(e) == SelectSeq(log.cb, LAMBDA call : call.e = e)

\* the effect a watch() made
Watcher(e) == e \in 1..Len(effects) /\ effects[e].fn \in {"watchRef", "watchGetter"}

\* C12: watch(R, cb) on the ref holding v0 returns with cb not invoked, and
\* the write of v1 to R.value, R holding v0 and being watched, invokes cb
\* exactly once, with (v1, v0).
C12_NoCallBeforeChange ==
    /\ (Did("watch") /\ refValue = "v0") => log.cb = <<>>
    /\ (Did("refset") /\ op.before = "v0" /\ op.instr.val = "v1")
       => \A e \in 1..Len(effects) :
             Watcher(e) => /\ Len(CallsOf(e)) = 1
                           /\ CallsOf(e)[1].new = "v1" /\ CallsOf(e)[1].old = "v0"

Subscribed(e) == {slot \in Slots : InSeq(e, targetMap[slot])}

\* the effect e has run once in the operation and is subscribed to the slots
\* this run read, and to no other; its deps are the Sets of these slots
RanOnceAndTracked(e) ==
    /\ log.runs[e] = 1
    /\ Subscribed(e) = log.reads[e]
    /\ {effects[e].deps[k] : k \in 1..Len(effects[e].deps)} = log.reads[e]

\* C14: when effect(fn) returns the handle of e, fn has run exactly once and e
\* is subscribed to exactly the slots that run read; when a call of the handle
\* returns, fn has run exactly once more and e is subscribed to exactly the
\* slots of this run (those of the run before are cleaned up).
C14_EagerRunAndHandle ==
    \A e \in 1..Len(effects) :
        /\ (Did("effect") /\ Result = EffectNames[e]) => RanOnceAndTracked(e)
        /\ (Did("call") /\ op.instr.root = EffectNames[e]) => RanOnceAndTracked(e)

\* C14's case: the handle of () => w.nested.count was called after the effect
\* had read N's count through a wrapper and user code had then put a primitive
\* in place of N in the plain object: the effect has left N's count.
C14_HandleCalled ==
    \E e \in 1..Len(effects) :
        /\ Did("call") /\ op.instr.root = EffectNames[e]
        /\ effects[e].fn = "readNested" /\ log.runs[e] = 1
        /\ reactiveCache["N"] # "none" /\ heap["A"]["nested"] = "v1"
        /\ Subscribed(e) = {<<"A", "nested">>}

\* The exception of the top-level operation has left every function it had
\* called and is about to reach user code at top level: op and log describe
\* the whole operation.
Failed == Len(ctl) = 1 /\ err # NoError

\* the warnings of nesting `depth` deep: one for each push that brings the
\* stack to the threshold or above
WarningsOf(depth) ==
    IF depth >= EFFECT_STACK_WARNING_THRESHOLD
    THEN depth - EFFECT_STACK_WARNING_THRESHOLD + 1 ELSE 0

\* C15: nested effect creation that would go deeper than the ceiling fails
\* with MAX_STACK, the failing call of effect() having created no effect (the
\* effects are as many as the ceiling) and every run having left the stack;
\* nesting up to the ceiling completes with every effect created; and each run
\* whose push brings the stack to the warning threshold or above has warned.
C15_StackCeiling ==
    /\ Len(effectStack) <= MAX_EFFECT_STACK_SIZE
    /\ (Failed /\ op.instr.op = "nest") =>
          /\ err = ERR_MAX_STACK
          /\ op.instr.n > MAX_EFFECT_STACK_SIZE
          /\ Len(effects) = MAX_EFFECT_STACK_SIZE /\ effectStack = <<>>
          /\ log.stackWarns = WarningsOf(MAX_EFFECT_STACK_SIZE)
    /\ Did("nest") =>
          /\ op.instr.n <= MAX_EFFECT_STACK_SIZE
          /\ Len(effects) = op.instr.n /\ effectStack = <<>>
          /\ log.stackWarns = WarningsOf(op.instr.n)

\* C15's case: nesting one deeper than the ceiling, effect() has just failed
\* with the stack full, no effect created.
C15_OneTooDeep ==
    /\ op.instr.op = "nest" /\ op.instr.n = MAX_EFFECT_STACK_SIZE + 1
    /\ err = ERR_MAX_STACK /\ Len(effectStack) = MAX_EFFECT_STACK_SIZE
    /\ Len(effects) = MAX_EFFECT_STACK_SIZE /\ log.stackWarns > 0

\* the plain objects that are values of a's own keys
ValuesOf(a) == {b \in Raw : \E k \in Keys : heap[a][k] = b}

RECURSIVE Within(_, _)
\* the objects of S and those reached from them in at most n steps
Within(S, n) ==
    IF n = 0 THEN S ELSE Within(S \cup UNION {ValuesOf(a) : a \in S}, n - 1)

\* the objects the descent from a visits, a among them
ReachableFrom(a) == Within({a}, Cardinality(Raw))
\* o is met again below itself
OnItsOwnPath(o) == o \in Within(ValuesOf(o), Cardinality(Raw))
Circular(a) == \E o \in ReachableFrom(a) : OnItsOwnPath(o)

\* what a call of reactive(a) on a plain object a has come to
Accepts(a) == Did("reactive") /\ op.instr.root = a /\ Result = reactiveCache[a]
Rejects(a) == Failed /\ op.instr.op = "reactive" /\ op.instr.root = a

\* C16: reactive(a) of a plain object fails, with CIRCULAR_REF, exactly when an
\* object reachable from a is met again on its own descent path (an object
\* two keys share is accepted); when the call is over no object carries the
\* mark and the objects are as the call found them, so that the next call of
\* reactive(a) finds what this one found.
C16_Circular ==
    \A a \in Raw :
        /\ Rejects(a) => (err = ERR_CIRCULAR_REF /\ Circular(a))
        /\ Accepts(a) => ~Circular(a)
        /\ (Rejects(a) \/ Accepts(a)) =>
               (heap = op.heap /\ \A o \in Raw : heap[o][CIRCULAR_CHECK] = Absent)

\* C16's case: reactive(A) has failed for A.nested = N and N.nested = A, A
\* not being a value of its own keys.
C16_TransitiveCycle ==
    /\ Rejects("A") /\ err = ERR_CIRCULAR_REF
    /\ "A" \notin ValuesOf("A") /\ heap["A"]["nested"] = "N" /\ heap["N"]["nested"] = "A"

\* the depth of the innermost object below A, A being at depth 0: the chain
\* hangs from A.nested, one object a level
DepthBelowA == Cardinality(DOMAIN heap \ (Raw \cup {Arr}))

\* C17: with A the outermost object of a chain, reactive(A) fails, with
\* MAX_RECURSION, when the innermost object sits at depth MAX_RECURSION_DEPTH,
\* and returns A's wrapper when it sits at depth MAX_RECURSION_DEPTH - 1.
C17_RecursionLimit ==
    /\ (Rejects("A") /\ DepthBelowA > 0) =>
          (err = ERR_MAX_RECURSION /\ DepthBelowA >= MAX_RECURSION_DEPTH)
    /\ (Accepts("A") /\ DepthBelowA > 0) => DepthBelowA < MAX_RECURSION_DEPTH
    /\ (Rejects("A") \/ Accepts("A")) => heap = op.heap

\* C17's case: reactive(A) has failed on the chain whose innermost object
\* sits at depth MAX_RECURSION_DEPTH.
C17_AtTheCeiling ==
    /\ Rejects("A") /\ err = ERR_MAX_RECURSION
    /\ DepthBelowA = MAX_RECURSION_DEPTH /\ heap["A"]["nested"] = DeepName(1)
    /\ heap[DeepName(MAX_RECURSION_DEPTH)]["count"] = "v0"

WrapOps == {"reactive", "shallowReactive", "readonly"}

\* C18: reactive, shallowReactive and readonly alike fail with INVALID_TYPE
\* when given null or a primitive, and fail with CIRCULAR_REF, no wrapper
\* being created, when given a circular plain object: none of them returns
\* for such an argument.
C18_AllValidate ==
    /\ (Finished /\ op.instr.op \in WrapOps) =>
          /\ IsObject(op.instr.root)
          /\ op.instr.root \in Raw => ~Circular(op.instr.root)
    /\ (Failed /\ op.instr.op \in WrapOps) =>
          /\ ~IsObject(op.instr.root) => err = ERR_INVALID_TYPE
          /\ (op.instr.root \in Raw /\ Circular(op.instr.root)) =>
                (err = ERR_CIRCULAR_REF /\ reactiveCache[op.instr.root] = op.cached)

\* C19: the effect stack never holds more entries than the ceiling, whether
\* its effects were entered by effect() or re-entered by a trigger.
C19_StackWithinCeiling == Len(effectStack) <= MAX_EFFECT_STACK_SIZE

\* C20: an operation that sets off re-triggering without end (the creation of
\* an effect that writes the slot it read, or a write to that slot) fails with
\* MAX_STACK and with nothing else.
C20_EndsWithMaxStack ==
    (err # NoError /\ op.instr.op \in {"effect", "set"}) => err = ERR_MAX_STACK

\* the top-level operation has ended, by return or by exception
Ended == Finished \/ Failed

\* C21: when a write of another value to R.value ends, by return or by
\* exception, every effect that was subscribed to the ref's value when the
\* write began has been re-run exactly once by the trigger of that write.
C21_EachSubscriberOnce ==
    (Ended /\ op.instr.op = "refset" /\ op.instr.val # op.before)
        => \A e \in op.readers : log.direct[e] = 1

\* the calls of effect functions in progress, outermost first
RunFrames == SelectSeq(ctl, LAMBDA f : f.kind = "call" /\ f.e > 0)

\* C22: the effect stack holds exactly the effects whose runs are in progress,
\* in the order they were entered: a run that has returned or raised has left
\* the stack as it found it, and the stack is empty when no run is in
\* progress.
C22_StackDiscipline ==
    /\ effectStack = [k \in 1..Len(RunFrames) |-> RunFrames[k].e]
    /\ (Idle \/ Ended) => effectStack = <<>>

\* C22's case: a write has ended with the exception the re-run of an effect
\* raised, and the stack is empty.
C22_AfterRaise ==
    /\ Failed /\ err = UserError /\ op.instr.op = "set"
    /\ \E e \in op.readers : log.runs[e] = 1
    /\ log.errs = 1 /\ effectStack = <<>>

RECURSIVE TargetsUnder(_)
\* the targets a write through the wrapper h passes through, down to the
\* plain object
TargetsUnder(h) ==
    IF IsProxy(h) THEN {ProxyOf(Pack, h).target} \cup TargetsUnder(ProxyOf(Pack, h).target)
    ELSE {}

\* C23: every effect is subscribed to exactly the slots its function read in
\* its last run; and the trigger of a write through a wrapper re-runs no
\* effect whose last run did not read the slot written.
C23_SubscribedToLastReads ==
    /\ \A e \in 1..Len(effects) : e \in EffectIds => Subscribed(e) = lastReads[e]
    /\ (Ended /\ op.instr.op = "set" /\ IsProxy(op.via)) =>
          \A e \in 1..Len(effects) :
              (e \in EffectIds /\ \A x \in TargetsUnder(op.via) :
                                     <<x, op.instr.key>> \notin op.lastReads[e])
                  => log.direct[e] = 0

\* C23's case: the function of an effect read `nested` in an earlier run (the
\* wrapper of N was made by that read) and not in its last one; a write of
\* another value to `nested` has returned without a run of the effect.
C23_BranchNotTaken ==
    /\ Did("set") /\ op.instr.key = "nested" /\ op.instr.val # op.before
    /\ Len(effects) = 1 /\ effects[1].fn = "branch" /\ effects[1].root = PName(1)
    /\ reactiveCache["N"] # "none"
    /\ lastReads[1] = {<<"A", "count">>} /\ log.direct[1] = 0 /\ log.runs[1] = 0

\* no element occurs twice in the sequence
NoDuplicate(seq) == \A i, j \in 1..Len(seq) : seq[i] = seq[j] => i = j

\* C24: an effect is a member of the Set of a slot if and only if that Set is
\* in the effect's deps, where it occurs once, as the effect does in the Set.
C24_EdgesAndLinks ==
    \A e \in 1..Len(effects) :
        /\ \A slot \in Slots : InSeq(e, targetMap[slot]) <=> InSeq(slot, effects[e].deps)
        /\ NoDuplicate(effects[e].deps)
        /\ \A k \in 1..Len(effects[e].deps) : NoDuplicate(targetMap[effects[e].deps[k]])

\* C24's case: effect() has returned after a run that read the count twice,
\* with one edge and one link.
C24_ReadTwice ==
    /\ Did("effect") /\ op.instr.fn = "readTwice" /\ op.instr.root = PName(1)
    /\ Len(effects) = 1 /\ log.runs[1] = 1
    /\ effects[1].deps = <<<<"A", "count">>>>
    /\ targetMap[<<"A", "count">>] = <<1>>

\* C25: a step subscribes no effect but the one whose function is executing
\* (the innermost run in progress), and subscribes that one to every slot the
\* step read; a read with no run in progress subscribes nothing.
C25_ReadsGoToTheRunner ==
    [][\A e \in 1..Len(effects'), slot \in Slots :
          /\ (InSeq(e, targetMap'[slot]) /\ ~InSeq(e, targetMap[slot])) => e = Runner(Pack)
          /\ (e \in EffectIds /\ slot \in lastReads'[e] /\ slot \notin lastReads[e])
                 => (e = Runner(Pack) /\ InSeq(e, targetMap'[slot]))]_vars

\* C25's case: effect(outer) has returned; the read of the count inside the
\* nested effect subscribed the inner effect alone, the read of `nested` after
\* it the outer one alone.
C25_InnerAndOuter ==
    /\ Did("effect") /\ op.instr.fn = "outer" /\ op.instr.root = PName(1)
    /\ Len(effects) = 2 /\ effects[1].fn = "outer" /\ effects[2].fn = "inner"
    /\ Subscribed(2) = {<<"A", "count">>}
    /\ Subscribed(1) = {<<"A", "nested">>}

\* C26: a write or a delete through a wrapper that is readonly, or whose
\* plain object is frozen, returns without an exception, having changed no
\* plain object, run no effect and warned once.
C26_RefusedAndSwallowed ==
    (Ended /\ op.instr.op \in {"set", "delete"} /\ IsProxy(op.via)
        /\ (ProxyOf(Pack, op.via).readonly \/ IsFrozen(Pack, op.via)))
        => /\ err = NoError
           /\ heap = op.heap
           /\ \A e \in EffectIds : log.runs[e] = 0
           /\ log.warns = 1

\* the errors that end the operation that met them
Fatal == {ERR_INVALID_TYPE, ERR_CIRCULAR_REF, ERR_MAX_RECURSION, ERR_MAX_STACK}

\* C27: effect() raises its error with the effect stack and the cache as it
\* found them; an error of reactive() or effect() goes from frame to frame up
\* to user code at top level; and when reactive() has failed the cache is as
\* the call found it and the effect stack is empty.
C27_FailureLeavesNoTrace ==
    [][/\ (err = NoError /\ err' = ERR_MAX_STACK)
            => (effectStack' = effectStack /\ reactiveCache' = reactiveCache)
       /\ (err \in Fatal /\ Len(ctl) > 1) => err' = err
       /\ (Len(ctl') = 1 /\ err' \in Fatal /\ op'.instr.op = "reactive")
            => (reactiveCache' = op'.caches /\ effectStack' = <<>>)]_vars

\* C28: what a function of user code raised goes unchanged from frame to
\* frame, one frame at a time, up to the user code that wrote or called
\* effect(); when it arrives there the effect stack is empty and, for a write,
\* the plain object holds the value written.
C28_RaisedToTheWriter ==
    [][/\ (err = UserError /\ Len(ctl) > 1)
            => (err' = UserError /\ Len(ctl') = Len(ctl) - 1)
       /\ (Len(ctl') = 1 /\ err' = UserError /\ op'.instr.op \in {"set", "effect"})
            => /\ effectStack' = <<>>
               /\ op'.instr.op = "set"
                    => heap'[RawOf(Pack, op'.via)][op'.instr.key] = op'.instr.val]_vars

\* a write of v1 over v0 has re-run an effect whose function then raised, and
\* the exception has reached the writer
C28_WriteRaised ==
    /\ Failed /\ err = UserError /\ effectStack = <<>>
    /\ op.instr.op = "set" /\ op.instr.key = "count" /\ op.instr.val = "v1"
    /\ op.before = "v0" /\ heap["A"]["count"] = "v1"
    /\ \E e \in op.readers : effects[e].fn = "failCount" /\ log.direct[e] = 1

\* C29: toRaw of a wrapper returns the plain object under it, which is no
\* wrapper; toRaw of anything else returns its argument.
C29_ToRawIsPlain ==
    Did("toRaw") =>
        IF IsProxy(op.instr.root)
        THEN Result = RawOf(Pack, op.instr.root) /\ ~IsProxy(Result)
        ELSE Result = op.instr.root

\* what reading the key k of the plain object or array a gives
ReadsAs(a, k) == IF a[k] = Absent THEN Undef ELSE a[k]

\* C30: when a write through a wrapper has returned, every effect that was
\* subscribed to a slot of the wrapper's target whose value the write changed
\* has been re-run by it.
C30_ChangedSlotsReRun ==
    (Did("set") /\ IsProxy(op.via)) =>
        \A k \in DOMAIN heap[RawOf(Pack, op.via)] :
            ReadsAs(heap[RawOf(Pack, op.via)], k) # ReadsAs(op.heap[RawOf(Pack, op.via)], k)
                => \A e \in 1..Len(effects) :
                       InSeq(e, op.subs[<<ProxyOf(Pack, op.via).target, k>>])
                           => log.direct[e] >= 1

\* the slots the getter of the watcher e reads: () => R.value, () => unref(R)
GetterReads(e) == {<<RefName, "value">>}

\* C31: a write through a wrapper to a slot the getter of a watcher does not
\* read invokes the watcher's callback not once, whatever the callback read.
C31_CallbackForGetterSlotsOnly ==
    (Ended /\ op.instr.op = "set" /\ IsProxy(op.via)) =>
        \A e \in 1..Len(effects) :
            (/\ effects[e].fn \in {"watchRef", "watchGetter", "watchReading"}
             /\ <<ProxyOf(Pack, op.via).target, op.instr.key>> \notin GetterReads(e))
                => CallsOf(e) = <<>>

\* the effects made from the function fn
MadeFrom(fn) == {e \in 1..Len(effects) : effects[e].fn = fn}

\* C32: of the effects the runs of `outer` have created, no more than one for
\* each `outer` is subscribed to a slot once user code has control again, and
\* a write re-runs no more than one for each `outer`.
C32_OneInnerPerOuter ==
    /\ (Idle \/ Ended) =>
          Cardinality({e \in MadeFrom("inner") : Subscribed(e) # {}})
              <= Cardinality(MadeFrom("outer"))
    /\ (Ended /\ op.instr.op = "set") =>
          Cardinality({e \in MadeFrom("inner") : e \in EffectIds /\ log.direct[e] >= 1})
              <= Cardinality(MadeFrom("outer"))

\* C33: an effect whose first run raised is in the Set of no slot when
\* effect() has raised to user code, and no later write re-runs it.
C33_NoHandleNoSubscription ==
    /\ (Idle \/ Ended) => \A e \in noHandle : Subscribed(e) = {}
    /\ (Ended /\ op.instr.op = "set") =>
          \A e \in noHandle : e \in EffectIds => log.runs[e] = 0

\* C34: a call reactive(x) leaves the Dependency Graph as it found it and
\* runs no effect, x raw or a wrapper; made by the function of an effect, it
\* leaves that effect subscribed to nothing and run once, by effect() alone.
C34_ValidationOutsideTheGraph ==
    /\ (Ended /\ op.instr.op = "reactive") =>
          /\ targetMap = op.subs
          /\ \A e \in EffectIds : log.runs[e] = 0
    /\ (Idle \/ Ended) =>
          \A e \in MadeFrom("rewrap") : Subscribed(e) = {}
    /\ (Ended /\ op.instr.op = "effect" /\ op.instr.fn = "rewrap") =>
          \A e \in EffectIds : log.runs[e] = (IF e = Len(effects) THEN 1 ELSE 0)

====
